---- MODULE Spec2Model ----
(***************************************************************************)
(* Weight_Tracker_Backend: the event ledger with its derived streak state, *)
(* the unified notification scheduler with its cron driver, and the        *)
(* deferred-link workflow engine, as state machines over one document      *)
(* store.                                                                  *)
(*                                                                         *)
(* A Firestore document is a function from field names to values; a        *)
(* collection is a function from document ids to documents, and a document *)
(* exists iff its id is in the collection's DOMAIN.  An optional value is  *)
(* a sequence of length 0 (null / absent) or 1.  Instants are minutes      *)
(* since an epoch that falls on a UTC midnight; a calendar date is the     *)
(* number of its day.                                                      *)
(***************************************************************************)
EXTENDS Integers, Sequences, FiniteSets, TLC

VARIABLES
    users,      \* collection "users": uid -> document
    events,     \* collection "events": event id -> document
    now,        \* the wall clock (server time), in minutes
    tcall,      \* trackEventTx invocations: process -> position and arguments
    outcomes,   \* history: per event id, how many calls returned created, how
                \* many duplicate, and how many duplicate after a failed commit
    applied,    \* history: per event id, how many transactions committed its writes
    ncalls,     \* history: trackEventTx calls started so far
    foreign,    \* history: event ids for which a call by another user than the
                \* record's returned duplicate
    workflows,  \* collection "workflows": workflow id -> document
    wcall,      \* resolveWorkflow / completeWorkflow invocations: process -> position
    wout,       \* history: per workflow id, what the resolve and complete calls returned
    wwrites,    \* history: per workflow id, how many completion writes were committed
    nwcalls,    \* history: workflow service calls started so far
    wret,       \* history: what the last workflow service call that returned
                \* gave back, and whether it had read the store
    devices,    \* collection "devices": device id -> document
    pcall,      \* the updateNotificationPref invocation in flight
    run,        \* sendUnifiedNotifications invocations: run -> position and locals
    pushes,     \* history: push attempts per (type, uid, deviceId, window)
    notifications, \* collection "notifications": the records added, as a bag
    advanced,   \* history: <<uid, window>> of every committed schedule advance
    dropped,    \* history: <<uid, window>> of every due user the window filter removed
    nops,       \* history: scheduler operations (preference updates, driver
                \* runs, clock advances) started so far
    areport,    \* history: what the trackEventAsync calls gave their callers
    ccall,      \* deductCredit / getOrCreateUser invocations: process -> position
    chist,      \* history: credit calls started, deductions committed, refusals
    fcall       \* the evaluation of a schedule function: its name, arguments,
                \* the instant it read from the clock, and its result

eventVars == <<events, tcall, outcomes, applied, ncalls, foreign>>
wfVars == <<workflows, wcall, wout, wwrites, nwcalls, wret>>
schedVars == <<devices, pcall, run, pushes, notifications, advanced, dropped, nops>>
fnVars == <<fcall>>
asyncVars == <<areport>>
creditVars == <<ccall, chist>>
vars == <<users, events, now, tcall, outcomes, applied, ncalls, foreign,
          workflows, wcall, wout, wwrites, nwcalls, wret,
          devices, pcall, run, pushes, notifications, advanced, dropped, nops,
          fcall, areport, ccall, chist>>

----------------------------------------------------------------------------
(* Documents and optional values *)

Null == << >>
Some(v) == <<v>>
EmptyDoc == [f \in {} |-> f]

Merge(doc, upd) ==
    [f \in DOMAIN doc \cup DOMAIN upd |-> IF f \in DOMAIN upd THEN upd[f] ELSE doc[f]]

Put(store, k, doc) ==
    [y \in DOMAIN store \cup {k} |-> IF y = k THEN doc ELSE store[y]]

\* A transaction's or a plain get's snapshot of one document.
DocOpt(store, k) == IF k \in DOMAIN store THEN Some(store[k]) ELSE Null

Field(doc, f, default) == IF f \in DOMAIN doc THEN doc[f] ELSE default

----------------------------------------------------------------------------
(* Bounds and input sets *)

MinutesPerDay == 1440
\* The clock at construction: 14:30 UTC of the fourth day.
StartInstant == 3 * MinutesPerDay + 14 * 60 + 30
MaxCalls == 3          \* trackEventTx calls per behaviour

Users == {"u1", "u2"}
EventUsers == {"u1"}
EventIds == {"e1", "e2"}
\* Every event id a call may carry.
AllEventIds == EventIds \cup {"e3"}
Procs == {"p1", "p2"}
WEIGHT_LOGGED == "WEIGHT_LOGGED"
EventNames == {WEIGHT_LOGGED, "FOOD_ANALYZED"}
Zones == {"UTC", "Asia/Kolkata"}
BadZone == "Not/AZone"
\* Client timestamps: 20:00 UTC on days 1 and 2 (01:30 the next day in Kolkata),
\* which gives the local dates 1, 2, 2 and 3.
EventInstants == {d * MinutesPerDay + 1200 : d \in {1, 2}}

\* The server instants at which calls are served: 14:30 and 14:31 UTC.
ServerInstants == {StartInstant, StartInstant + 1}

ValidZone(tz) == tz \in {"UTC", "Asia/Kolkata", "America/Los_Angeles"}

\* Offset of the zone's wall clock from UTC, in minutes.
TzOffset(tz) ==
    CASE tz = "Asia/Kolkata" -> 330
      [] tz = "America/Los_Angeles" -> -480
      [] OTHER -> 0

----------------------------------------------------------------------------
(* User documents: services/user.ts *)

DEFAULT_FREE_CREDITS == 20

\* The document initializeUser writes for a user seen for the first time.
NewUserDoc(at) ==
    [aiCredits |-> DEFAULT_FREE_CREDITS, totalGranted |-> DEFAULT_FREE_CREDITS,
     totalUsed |-> 0, createdAt |-> at, lastActiveAt |-> at]

----------------------------------------------------------------------------
(* Event ledger: services/events.ts *)

\* The calendar date of an instant in a zone; UTC when the zone is invalid.
getLocalDate(timestamp, timezone) ==
    IF ValidZone(timezone)
    THEN (timestamp + TzOffset(timezone)) \div MinutesPerDay
    ELSE timestamp \div MinutesPerDay

computeStreakNoIncrement(currentStreak, lastLogDate, newLogDate) ==
    IF lastLogDate = Null THEN 1
    ELSE LET diffDays == newLogDate - lastLogDate[1]
         IN  IF diffDays = 0 THEN currentStreak
             ELSE IF diffDays = 1 THEN currentStreak
             ELSE 1

computeStreak(currentStreak, lastLogDate, newLogDate) ==
    IF lastLogDate = Null THEN 1
    ELSE LET diffDays == newLogDate - lastLogDate[1]
         IN  IF diffDays = 0 THEN currentStreak
             ELSE IF diffDays = 1 THEN currentStreak + 1
             ELSE 1

\* EventPayloads[eventName].safeParse(metadata).success
AnyMetadata(a) == TRUE

MetadataValid(a) == a.metadata # "bad"

TrackArgs ==
    [eventId : EventIds, eventName : EventNames, userId : EventUsers,
     timestamp : EventInstants, timezone : Zones,
     metadata : {"ok", "bad"}]

NoArgs ==
    [eventId |-> "", eventName |-> "", userId |-> "", timestamp |-> 0,
     timezone |-> "", metadata |-> ""]

IdleCall ==
    [pc |-> "idle", args |-> NoArgs, snapEvent |-> Null, snapUser |-> Null,
     ingested_at |-> 0, attempts |-> 0]

\* The history's record of a call with event id e returning status.
Returned(status, e, attempts) ==
    [outcomes EXCEPT ![e] =
        IF status = "created" THEN [@ EXCEPT !.created = @ + 1]
        ELSE IF attempts > 1 THEN [@ EXCEPT !.duplicate = @ + 1, !.contended = @ + 1]
        ELSE [@ EXCEPT !.duplicate = @ + 1]]

\* Step 3 of the transaction: the streak fields written for WEIGHT_LOGGED.
\* total_logs is FieldValue.increment(1), resolved against the stored value.
StreakUpdate(a, userData) ==
    IF a.eventName = WEIGHT_LOGGED
    THEN LET localDate == getLocalDate(a.timestamp, a.timezone)
             currentStreak == Field(userData, "current_streak", 0)
             lastLogDate == Field(userData, "last_log_date", Null)
         IN  [current_streak |-> computeStreak(currentStreak, lastLogDate, localDate),
              last_log_date |-> Some(localDate),
              total_logs |-> Field(userData, "total_logs", 0) + 1]
    ELSE EmptyDoc

\* Step 6: the user document after the transaction's write.
UserWrite(a, snapUser, at) ==
    IF snapUser # Null
    THEN Merge(snapUser[1],
               Merge(StreakUpdate(a, snapUser[1]),
                     [timezone |-> a.timezone, last_active_at |-> at]))
    ELSE LET streakUpdate == StreakUpdate(a, EmptyDoc)
         IN  Merge(streakUpdate,
                   [current_streak |-> Field(streakUpdate, "current_streak", 0),
                    last_log_date |-> Field(streakUpdate, "last_log_date", Null),
                    total_logs |-> 0,
                    timezone |-> a.timezone,
                    last_active_at |-> at])

\* Step 4: the event document.
EventDoc(a, ingested) ==
    [event_id |-> a.eventId, user_id |-> a.userId, event_name |-> a.eventName,
     event_timestamp_utc |-> a.timestamp,
     event_local_date |-> getLocalDate(a.timestamp, a.timezone),
     ingested_at |-> ingested, timezone |-> a.timezone, metadata |-> a.metadata]

\* Step 1: the idempotency check on the transaction's read of events/{eventId}.
AlwaysNew(snapEvent) == FALSE

IsDuplicate(snapEvent) == snapEvent # Null

\* db.runTransaction: a commit goes through only if the documents the callback
\* read are unchanged; otherwise the callback is run again.
NeverConflicts(c) == FALSE

TxConflict(c) ==
    \/ DocOpt(events, c.args.eventId) # c.snapEvent
    \/ DocOpt(users, c.args.userId) # c.snapUser

\* The transaction callback on the documents as they are now: both reads, then
\* either the duplicate return or the prepared writes.
RunCallback(p, a) ==
    LET snapEvent == DocOpt(events, a.eventId)
        attempts == tcall[p].attempts + 1
    IN  IF IsDuplicate(snapEvent)
        THEN /\ tcall' = [tcall EXCEPT ![p] = IdleCall]
             /\ outcomes' = Returned("duplicate", a.eventId, attempts)
             /\ foreign' = IF a.userId # snapEvent[1].user_id
                           THEN foreign \cup {a.eventId} ELSE foreign
        ELSE /\ tcall' = [tcall EXCEPT ![p] =
                    [pc |-> "commit", args |-> a, snapEvent |-> snapEvent,
                     snapUser |-> DocOpt(users, a.userId), ingested_at |-> now,
                     attempts |-> attempts]]
             /\ UNCHANGED <<outcomes, foreign>>

\* trackEventTx is called: the metadata is validated, then the transaction is
\* opened and its callback runs for the first time.
TrackStart(p, a) ==
    /\ tcall[p].pc = "idle"
    /\ ncalls < MaxCalls
    /\ ncalls' = ncalls + 1
    /\ IF MetadataValid(a)
       THEN RunCallback(p, a)
       ELSE UNCHANGED <<tcall, outcomes, foreign>>
    /\ UNCHANGED <<users, events, now, applied>>
    /\ UNCHANGED wfVars
    /\ UNCHANGED schedVars
    /\ UNCHANGED fnVars
    /\ UNCHANGED asyncVars
    /\ UNCHANGED creditVars

\* The callback runs again after a failed commit.
TrackRetry(p) ==
    /\ tcall[p].pc = "callback"
    /\ RunCallback(p, tcall[p].args)
    /\ UNCHANGED <<users, events, now, applied, ncalls>>
    /\ UNCHANGED wfVars
    /\ UNCHANGED schedVars
    /\ UNCHANGED fnVars
    /\ UNCHANGED asyncVars
    /\ UNCHANGED creditVars

\* The transaction commits its writes, or is retried on contention.
TrackCommit(p) ==
    LET c == tcall[p]
    IN  /\ c.pc = "commit"
        /\ IF TxConflict(c)
           THEN /\ tcall' = [tcall EXCEPT ![p] =
                       [c EXCEPT !.pc = "callback", !.snapEvent = Null, !.snapUser = Null,
                                 !.ingested_at = 0]]
                /\ UNCHANGED <<users, events, outcomes, applied>>
           ELSE /\ events' = Put(events, c.args.eventId, EventDoc(c.args, c.ingested_at))
                /\ users' = Put(users, c.args.userId, UserWrite(c.args, c.snapUser, now))
                /\ tcall' = [tcall EXCEPT ![p] = IdleCall]
                /\ outcomes' = Returned("created", c.args.eventId, c.attempts)
                /\ applied' = [applied EXCEPT ![c.args.eventId] = @ + 1]
        /\ UNCHANGED <<now, ncalls, foreign>>
        /\ UNCHANGED wfVars
        /\ UNCHANGED schedVars
        /\ UNCHANGED fnVars
        /\ UNCHANGED asyncVars
        /\ UNCHANGED creditVars

\* Time passes between the steps of the calls.
ClockEvents ==
    /\ now' \in {t \in ServerInstants : t > now}
    /\ UNCHANGED <<users, events, tcall, outcomes, applied, ncalls, foreign>>
    /\ UNCHANGED wfVars
    /\ UNCHANGED schedVars
    /\ UNCHANGED fnVars
    /\ UNCHANGED asyncVars
    /\ UNCHANGED creditVars

----------------------------------------------------------------------------
(* Event ledger: trackEventAsync, the fire-and-forget variant *)

\* new Date(timestamp) of a string that is no date: Invalid Date.
InvalidDate == -1

\* getLocalDate on Invalid Date: format throws, and so does the toISOString of
\* the fallback; trackEventTx rejects before it opens the transaction.
TimestampValid(a) == a.timestamp # InvalidDate

\* params.eventId ?? generateEventId(): a generated id is one no call has used.
GeneratedEventIds == AllEventIds \ EventIds

AsyncEventId(eventId) ==
    IF eventId # Null THEN {eventId[1]}
    ELSE {e \in GeneratedEventIds :
             /\ e \notin DOMAIN events
             /\ \A q \in Procs : tcall[q].args.eventId # e}

\* What the try/catch of trackEventAsync hands to its caller when the awaited
\* trackEventTx ends as given: the error is logged, never thrown again.
Rethrown(cause, contended, threw) ==
    [cause |-> cause, contended |-> contended, threw |-> threw]

CaughtAndLogged(cause, contended, threw) ==
    [cause |-> cause, contended |-> contended, threw |-> FALSE]

AsyncArgs ==
    [eventId : {Null, Some("e1")}, eventName : EventNames, userId : EventUsers,
     timestamp : {2 * MinutesPerDay + 1200, InvalidDate}, timezone : {"UTC"},
     metadata : {"ok", "bad"}]

\* trackEventAsync is called: the event id is filled in, trackEventTx runs up
\* to the first callback of its transaction, and whatever it throws is caught.
AsyncStart(p, params) ==
    /\ tcall[p].pc = "idle"
    /\ ncalls < MaxCalls
    /\ ncalls' = ncalls + 1
    /\ \E eventId \in AsyncEventId(params.eventId) :
          LET a == [params EXCEPT !.eventId = eventId]
          IN  IF ~MetadataValid(a)
              THEN /\ areport' = areport \cup {CaughtAndLogged("metadata", FALSE, TRUE)}
                   /\ UNCHANGED <<tcall, outcomes, foreign>>
              ELSE IF ~TimestampValid(a)
              THEN /\ areport' = areport \cup {CaughtAndLogged("timestamp", FALSE, TRUE)}
                   /\ UNCHANGED <<tcall, outcomes, foreign>>
              ELSE /\ RunCallback(p, a)
                   /\ areport' = IF tcall'[p].pc = "idle"
                                 THEN areport \cup {CaughtAndLogged("duplicate", FALSE, FALSE)}
                                 ELSE areport
    /\ UNCHANGED <<users, events, now, applied>>
    /\ UNCHANGED wfVars
    /\ UNCHANGED schedVars
    /\ UNCHANGED fnVars
    /\ UNCHANGED creditVars

\* The callback runs again after a failed commit.
AsyncRetry(p) ==
    /\ tcall[p].pc = "callback"
    /\ RunCallback(p, tcall[p].args)
    /\ areport' = IF tcall'[p].pc = "idle"
                  THEN areport \cup {CaughtAndLogged("duplicate", TRUE, FALSE)}
                  ELSE areport
    /\ UNCHANGED <<users, events, now, applied, ncalls>>
    /\ UNCHANGED wfVars
    /\ UNCHANGED schedVars
    /\ UNCHANGED fnVars
    /\ UNCHANGED creditVars

\* The transaction commits its writes, or is retried on contention.
AsyncCommit(p) ==
    LET c == tcall[p]
    IN  /\ c.pc = "commit"
        /\ IF TxConflict(c)
           THEN /\ tcall' = [tcall EXCEPT ![p] =
                       [c EXCEPT !.pc = "callback", !.snapEvent = Null, !.snapUser = Null,
                                 !.ingested_at = 0]]
                /\ UNCHANGED <<users, events, outcomes, applied, areport>>
           ELSE /\ events' = Put(events, c.args.eventId, EventDoc(c.args, c.ingested_at))
                /\ users' = Put(users, c.args.userId, UserWrite(c.args, c.snapUser, now))
                /\ tcall' = [tcall EXCEPT ![p] = IdleCall]
                /\ outcomes' = Returned("created", c.args.eventId, c.attempts)
                /\ applied' = [applied EXCEPT ![c.args.eventId] = @ + 1]
                /\ areport' = areport \cup {CaughtAndLogged("created", c.attempts > 1, FALSE)}
        /\ UNCHANGED <<now, ncalls, foreign>>
        /\ UNCHANGED wfVars
        /\ UNCHANGED schedVars
        /\ UNCHANGED fnVars
        /\ UNCHANGED creditVars

\* db.runTransaction rejects (the store is unavailable, or the attempts are
\* used up): nothing is committed and trackEventTx throws.
AsyncAbort(p) ==
    LET c == tcall[p]
    IN  /\ c.pc \in {"commit", "callback"}
        /\ tcall' = [tcall EXCEPT ![p] = IdleCall]
        /\ areport' = areport \cup
              {CaughtAndLogged("transaction", c.pc = "callback" \/ c.attempts > 1, TRUE)}
        /\ UNCHANGED <<users, events, now, outcomes, applied, ncalls, foreign>>
        /\ UNCHANGED wfVars
        /\ UNCHANGED schedVars
        /\ UNCHANGED fnVars
        /\ UNCHANGED creditVars

----------------------------------------------------------------------------
(* Credits: services/user.ts, deductCredit and getOrCreateUser *)

MaxCreditCalls == 3    \* deductCredit and getOrCreateUser calls per behaviour

\* JavaScript's not-a-number, which "undefined - 1" evaluates to; an integer
\* no balance of the model reaches otherwise.
NaN == -1000

IdleCredit ==
    [pc |-> "idle", op |-> "", uid |-> "", snap |-> Null, newCredits |-> 0, at |-> 0]

NoCredits == [calls |-> 0, deducted |-> 0, refused |-> 0]

\* userData.aiCredits as the callback sees it: the stored value, or a value
\* that behaves as undefined does under <= and - when the field is missing.
aiCreditsOf(userData) == Field(userData, "aiCredits", NaN)

\* userData.aiCredits <= 0, which is false for undefined and for NaN.
NoCreditsLeft(aiCredits) == aiCredits # NaN /\ aiCredits <= 0

\* userData.aiCredits - 1.
OneLess(aiCredits) == IF aiCredits = NaN THEN NaN ELSE aiCredits - 1

\* The document the transaction of deductCredit leaves: the initial document
\* with one credit used when there was none, otherwise the document read with
\* the new balance, totalUsed incremented and lastActiveAt set.
DeductWrite(snap, newCredits, at) ==
    IF snap = Null
    THEN Merge(NewUserDoc(at),
               [aiCredits |-> DEFAULT_FREE_CREDITS - 1, totalUsed |-> 1,
                lastActiveAt |-> at])
    ELSE Merge(snap[1],
               [aiCredits |-> newCredits,
                totalUsed |-> Field(snap[1], "totalUsed", 0) + 1,
                lastActiveAt |-> at])

\* The transaction callback of deductCredit on the document as it is now,
\* in a call that is started (started = 1) or rerun (started = 0).
DeductCallback(q, uid, started) ==
    LET userDoc == DocOpt(users, uid)
        aiCredits == aiCreditsOf(userDoc[1])
    IN  IF userDoc # Null /\ NoCreditsLeft(aiCredits)
        THEN /\ ccall' = [ccall EXCEPT ![q] = IdleCredit]
             /\ chist' = [chist EXCEPT !.calls = @ + started, !.refused = @ + 1]
        ELSE /\ ccall' = [ccall EXCEPT ![q] =
                   [pc |-> "commit", op |-> "deduct", uid |-> uid, snap |-> userDoc,
                    newCredits |-> IF userDoc = Null THEN DEFAULT_FREE_CREDITS - 1
                                   ELSE OneLess(aiCredits),
                    at |-> now]]
             /\ chist' = [chist EXCEPT !.calls = @ + started]

\* deductCredit is called: the transaction is opened and its callback runs.
DeductStart(q, uid) ==
    /\ ccall[q].pc = "idle"
    /\ chist.calls < MaxCreditCalls
    /\ DeductCallback(q, uid, 1)
    /\ UNCHANGED <<users, now>>
    /\ UNCHANGED eventVars
    /\ UNCHANGED wfVars
    /\ UNCHANGED schedVars
    /\ UNCHANGED fnVars
    /\ UNCHANGED asyncVars

\* The callback runs again after a commit that was refused.
DeductRetry(q) ==
    /\ ccall[q].pc = "callback"
    /\ DeductCallback(q, ccall[q].uid, 0)
    /\ UNCHANGED <<users, now>>
    /\ UNCHANGED eventVars
    /\ UNCHANGED wfVars
    /\ UNCHANGED schedVars
    /\ UNCHANGED fnVars
    /\ UNCHANGED asyncVars

\* The transaction commits its write, or is refused and rerun when the user
\* document changed since the callback read it.
DeductCommit(q) ==
    LET c == ccall[q]
    IN  /\ c.pc = "commit"
        /\ c.op = "deduct"
        /\ IF DocOpt(users, c.uid) # c.snap
           THEN /\ ccall' = [ccall EXCEPT ![q] = [c EXCEPT !.pc = "callback", !.snap = Null]]
                /\ UNCHANGED <<users, chist>>
           ELSE /\ users' = Put(users, c.uid, DeductWrite(c.snap, c.newCredits, now))
                /\ ccall' = [ccall EXCEPT ![q] = IdleCredit]
                /\ chist' = [chist EXCEPT !.deducted = @ + 1]
        /\ UNCHANGED now
        /\ UNCHANGED eventVars
        /\ UNCHANGED wfVars
        /\ UNCHANGED schedVars
        /\ UNCHANGED fnVars
        /\ UNCHANGED asyncVars

\* getOrCreateUser is called and reads users/{uid}: it goes on to
\* initializeUser when the document is absent, otherwise to the update of
\* lastActiveAt.
GetOrCreateRead(q, uid) ==
    /\ ccall[q].pc = "idle"
    /\ chist.calls < MaxCreditCalls
    /\ chist' = [chist EXCEPT !.calls = @ + 1]
    /\ ccall' = [ccall EXCEPT ![q] =
          [pc |-> IF uid \in DOMAIN users THEN "touch" ELSE "initialize",
           op |-> "getOrCreateUser", uid |-> uid, snap |-> DocOpt(users, uid),
           newCredits |-> 0, at |-> 0]]
    /\ UNCHANGED <<users, now>>
    /\ UNCHANGED eventVars
    /\ UNCHANGED wfVars
    /\ UNCHANGED schedVars
    /\ UNCHANGED fnVars
    /\ UNCHANGED asyncVars

\* initializeUser reads users/{uid} itself: it returns the document when there
\* is one by now, otherwise it builds the initial document and goes on to
\* store it.
InitializeRead(q) ==
    LET c == ccall[q]
    IN  /\ c.pc = "initialize"
        /\ ccall' = [ccall EXCEPT ![q] =
              IF c.uid \in DOMAIN users THEN IdleCredit
              ELSE [c EXCEPT !.pc = "set", !.at = now]]
        /\ UNCHANGED <<users, now, chist>>
        /\ UNCHANGED eventVars
        /\ UNCHANGED wfVars
        /\ UNCHANGED schedVars
        /\ UNCHANGED fnVars
        /\ UNCHANGED asyncVars

\* initializeUser stores the initial document with set, replacing whatever is
\* stored under users/{uid} by then.
InitializeSet(q) ==
    LET c == ccall[q]
    IN  /\ c.pc = "set"
        /\ users' = Put(users, c.uid, NewUserDoc(c.at))
        /\ ccall' = [ccall EXCEPT ![q] = IdleCredit]
        /\ UNCHANGED <<now, chist>>
        /\ UNCHANGED eventVars
        /\ UNCHANGED wfVars
        /\ UNCHANGED schedVars
        /\ UNCHANGED fnVars
        /\ UNCHANGED asyncVars

\* getOrCreateUser updates lastActiveAt of the document it found.
GetOrCreateTouch(q) ==
    LET c == ccall[q]
    IN  /\ c.pc = "touch"
        /\ users' = Put(users, c.uid, Merge(users[c.uid], [lastActiveAt |-> now]))
        /\ ccall' = [ccall EXCEPT ![q] = IdleCredit]
        /\ UNCHANGED <<now, chist>>
        /\ UNCHANGED eventVars
        /\ UNCHANGED wfVars
        /\ UNCHANGED schedVars
        /\ UNCHANGED fnVars
        /\ UNCHANGED asyncVars

----------------------------------------------------------------------------
(* Deferred-link workflows: types/workflow.ts, services/workflow.ts *)

MIN_TTL_HOURS == 1
MAX_TTL_HOURS == 72
DEFAULT_TTL_HOURS == 48
MIN_WEIGHT == 20
MAX_WEIGHT == 300
MinutesPerHour == 60
MaxWfCalls == 4        \* workflow service calls per behaviour

WORKFLOW_TYPES == {"LOG_WEIGHT"}
\* Ids as generateWorkflowId yields them, in the order of their creation.
WorkflowIds == {"WF_01", "WF_02"}
WorkflowIdOrder == <<"WF_01", "WF_02">>
MalformedId == "WF_bad"

\* WORKFLOW_ID_REGEX.test(id)
AcceptsAnyId(id) == TRUE

WellFormedId(id) == id \in WorkflowIds

\* validateWorkflowType, validateTTL, validatePayload: TRUE iff none throws.
validateWorkflowType(type) == type \in WORKFLOW_TYPES

validateTTLLowerOnly(hours) == ~(hours < MIN_TTL_HOURS)

validateTTL(hours) == ~(hours < MIN_TTL_HOURS \/ hours > MAX_TTL_HOURS)

validatePayload(type, payload) ==
    ~(/\ type = "LOG_WEIGHT"
      /\ payload.suggestedWeight # Null
      /\ (payload.suggestedWeight[1] < MIN_WEIGHT \/ payload.suggestedWeight[1] > MAX_WEIGHT))

\* The effective status: COMPLETED if persisted so, else EXPIRED once the
\* expiry instant is strictly before the clock, else ACTIVE.
computeStatusForgetsCompleted(workflow, at) ==
    IF workflow.expiresAt < at THEN "EXPIRED" ELSE "ACTIVE"

computeStatusNeverExpired(workflow, at) ==
    IF workflow.status = "COMPLETED" THEN "COMPLETED" ELSE "ACTIVE"

computeStatusExpiredAtExpiry(workflow, at) ==
    IF workflow.status = "COMPLETED" THEN "COMPLETED"
    ELSE IF workflow.expiresAt <= at THEN "EXPIRED"
    ELSE "ACTIVE"

computeStatus(workflow, at) ==
    IF workflow.status = "COMPLETED" THEN "COMPLETED"
    ELSE IF workflow.expiresAt < at THEN "EXPIRED"
    ELSE "ACTIVE"

CreateParams ==
    [type : {"LOG_WEIGHT", "OPEN_APP"},
     payload : [suggestedWeight : {Some(19), Some(70), Some(301)}],
     expiresInHours : {Null, Some(0), Some(1), Some(73)},
     maxResolves : {Some(1)}]

IdleWf ==
    [pc |-> "idle", op |-> "", id |-> "", snap |-> Null, status |-> "",
     completedAt |-> 0, attempts |-> 0]

NoReturns ==
    [resolvedActive |-> 0, resolvedCompleted |-> 0, resolvedExpired |-> 0,
     completed |-> 0, contended |-> 0, conflict |-> 0]

\* What a service call gives back: the HTTP status of the ApiError it throws
\* (200 when it returns normally), the returned value, and whether the call
\* had issued a read of the store.
NoReturn == [op |-> "", code |-> 0, read |-> FALSE, value |-> Null]

Failure(op, code, read) == [op |-> op, code |-> code, read |-> read, value |-> Null]

Success(op, value) == [op |-> op, code |-> 200, read |-> op # "create", value |-> Some(value)]

DEEP_LINK_BASE_URL == "https://platewise.app"

DeepLinkUrlWithoutPath(workflowId) == <<DEEP_LINK_BASE_URL, "/", workflowId>>

\* `${DEEP_LINK_BASE_URL}/wf/${workflowId}`
DeepLinkUrl(workflowId) == <<DEEP_LINK_BASE_URL, "/wf/", workflowId>>

\* The document createWorkflow stores.
WorkflowDocExpiresInMinutes(workflowId, params, expiresInHours, at) ==
    [id |-> workflowId, type |-> params.type, status |-> "ACTIVE",
     payload |-> params.payload, userId |-> Null,
     createdAt |-> at,
     expiresAt |-> at + expiresInHours,
     maxResolves |-> params.maxResolves,
     metadata |-> [clickCount |-> 0, resolveCount |-> 0]]

WorkflowDoc(workflowId, params, expiresInHours, at) ==
    [id |-> workflowId, type |-> params.type, status |-> "ACTIVE",
     payload |-> params.payload, userId |-> Null,
     createdAt |-> at,
     expiresAt |-> at + expiresInHours * MinutesPerHour,
     maxResolves |-> params.maxResolves,
     metadata |-> [clickCount |-> 0, resolveCount |-> 0]]

\* The update of resolveWorkflow applied to the stored document: the counter
\* is incremented in the store, whatever the call had read.
ResolveWritePersistsStatus(doc, snapshot, status, at) ==
    Merge(doc, [status |-> status,
                metadata |-> Merge(doc.metadata,
                                [resolveCount |-> doc.metadata.resolveCount + 1,
                                 lastResolvedAt |-> at])])

ResolveWriteFromSnapshot(doc, snapshot, status, at) ==
    Merge(doc, [metadata |-> Merge(doc.metadata,
                                [resolveCount |-> snapshot.metadata.resolveCount + 1,
                                 lastResolvedAt |-> at])])

ResolveWrite(doc, snapshot, status, at) ==
    Merge(doc, [metadata |-> Merge(doc.metadata,
                                [resolveCount |-> doc.metadata.resolveCount + 1,
                                 lastResolvedAt |-> at])])

\* generateWorkflowId: the next id in creation order.
NextWorkflowId ==
    WorkflowIdOrder[Cardinality(DOMAIN workflows) + 1]

\* createWorkflow: validation, then one set of the new document.
CreateWorkflow(params) ==
    LET expiresInHours ==
            IF params.expiresInHours = Null THEN DEFAULT_TTL_HOURS
            ELSE params.expiresInHours[1]
    IN  /\ nwcalls < MaxWfCalls
        /\ nwcalls' = nwcalls + 1
        /\ IF /\ validateWorkflowType(params.type)
              /\ validateTTL(expiresInHours)
              /\ validatePayload(params.type, params.payload)
           THEN /\ Cardinality(DOMAIN workflows) < Len(WorkflowIdOrder)
                /\ workflows' = Put(workflows, NextWorkflowId,
                      WorkflowDoc(NextWorkflowId, params, expiresInHours, now))
                /\ wret' = Success("create", [workflowId |-> NextWorkflowId,
                                              deepLinkUrl |-> DeepLinkUrl(NextWorkflowId)])
           ELSE /\ UNCHANGED workflows
                /\ wret' = Failure("create", 400, FALSE)
        /\ UNCHANGED <<users, now, wcall, wout, wwrites>>
        /\ UNCHANGED eventVars
        /\ UNCHANGED fnVars
        /\ UNCHANGED asyncVars
        /\ UNCHANGED schedVars
        /\ UNCHANGED creditVars

\* resolveWorkflow up to its read: id validation, the get, the 404, and the
\* effective status computed on the snapshot.
ResolveRead(p, id) ==
    /\ wcall[p].pc = "idle"
    /\ nwcalls < MaxWfCalls
    /\ nwcalls' = nwcalls + 1
    /\ IF ~WellFormedId(id)
       THEN /\ wret' = Failure("resolve", 400, FALSE)
            /\ UNCHANGED wcall
       ELSE IF id \notin DOMAIN workflows
       THEN /\ wret' = Failure("resolve", 404, TRUE)
            /\ UNCHANGED wcall
       ELSE /\ wcall' = [wcall EXCEPT ![p] =
                [IdleWf EXCEPT !.pc = "update", !.op = "resolve", !.id = id,
                               !.snap = Some(workflows[id]),
                               !.status = computeStatus(workflows[id], now)]]
            /\ UNCHANGED wret
    /\ UNCHANGED <<users, now, workflows, wout, wwrites>>
    /\ UNCHANGED eventVars
    /\ UNCHANGED fnVars
    /\ UNCHANGED asyncVars
    /\ UNCHANGED schedVars
    /\ UNCHANGED creditVars

\* resolveWorkflow's update (the atomic counter increment) and its return.
ResolveUpdate(p) ==
    LET c == wcall[p]
        doc == workflows[c.id]
    IN  /\ c.pc = "update"
        /\ workflows' = Put(workflows, c.id, ResolveWrite(doc, c.snap[1], c.status, now))
        /\ wret' = Success("resolve", [type |-> c.snap[1].type, status |-> c.status,
                                       payload |-> c.snap[1].payload,
                                       expiresAt |-> c.snap[1].expiresAt])
        /\ wout' = [wout EXCEPT ![c.id] =
              CASE c.status = "ACTIVE" -> [@ EXCEPT !.resolvedActive = @ + 1]
                [] c.status = "COMPLETED" -> [@ EXCEPT !.resolvedCompleted = @ + 1]
                [] OTHER -> [@ EXCEPT !.resolvedExpired = @ + 1]]
        /\ wcall' = [wcall EXCEPT ![p] = IdleWf]
        /\ UNCHANGED <<users, now, wwrites, nwcalls>>
        /\ UNCHANGED eventVars
        /\ UNCHANGED fnVars
        /\ UNCHANGED asyncVars
        /\ UNCHANGED schedVars
        /\ UNCHANGED creditVars

\* completeWorkflow's transaction callback on the document as it is now.
CompleteCallback(p, id) ==
    LET workflow == workflows[id]
        computedStatus == computeStatus(workflow, now)
        attempts == wcall[p].attempts + 1
    IN  CASE computedStatus = "COMPLETED" ->
                /\ wout' = [wout EXCEPT ![id] =
                      IF attempts > 1
                      THEN [@ EXCEPT !.completed = @ + 1, !.contended = @ + 1]
                      ELSE [@ EXCEPT !.completed = @ + 1]]
                /\ wcall' = [wcall EXCEPT ![p] = IdleWf]
                /\ wret' = Success("complete", [status |-> "COMPLETED"])
          [] computedStatus = "EXPIRED" ->
                /\ wout' = [wout EXCEPT ![id].conflict = @ + 1]
                /\ wcall' = [wcall EXCEPT ![p] = IdleWf]
                /\ wret' = Failure("complete", 409, TRUE)
          [] OTHER ->
                /\ wcall' = [wcall EXCEPT ![p] =
                      [pc |-> "stamp", op |-> "complete", id |-> id,
                       snap |-> Some(workflow), status |-> "COMPLETED",
                       completedAt |-> 0, attempts |-> attempts]]
                /\ UNCHANGED <<wout, wret>>

\* completeWorkflow is called: id validation, then the transaction is opened
\* and its callback runs for the first time (404 when the document is absent).
CompleteStart(p, id) ==
    /\ wcall[p].pc = "idle"
    /\ nwcalls < MaxWfCalls
    /\ nwcalls' = nwcalls + 1
    /\ IF ~WellFormedId(id)
       THEN /\ wret' = Failure("complete", 400, FALSE)
            /\ UNCHANGED <<wcall, wout>>
       ELSE IF id \notin DOMAIN workflows
       THEN /\ wret' = Failure("complete", 404, TRUE)
            /\ UNCHANGED <<wcall, wout>>
       ELSE CompleteCallback(p, id)
    /\ UNCHANGED <<users, now, workflows, wwrites>>
    /\ UNCHANGED eventVars
    /\ UNCHANGED fnVars
    /\ UNCHANGED asyncVars
    /\ UNCHANGED schedVars
    /\ UNCHANGED creditVars

\* The callback runs again after a failed commit.
CompleteRetry(p) ==
    /\ wcall[p].pc = "callback"
    /\ CompleteCallback(p, wcall[p].id)
    /\ UNCHANGED <<users, now, workflows, wwrites, nwcalls>>
    /\ UNCHANGED eventVars
    /\ UNCHANGED fnVars
    /\ UNCHANGED asyncVars
    /\ UNCHANGED schedVars
    /\ UNCHANGED creditVars

\* The callback, having found the workflow ACTIVE on the clock computeStatus
\* read, reads the clock a second time for the completion instant and queues
\* the update.
CompleteStamp(p) ==
    /\ wcall[p].pc = "stamp"
    /\ wcall' = [wcall EXCEPT ![p] = [@ EXCEPT !.pc = "commit", !.completedAt = now]]
    /\ UNCHANGED <<users, now, workflows, wout, wwrites, nwcalls, wret>>
    /\ UNCHANGED eventVars
    /\ UNCHANGED fnVars
    /\ UNCHANGED asyncVars
    /\ UNCHANGED schedVars
    /\ UNCHANGED creditVars

\* The transaction commits status = COMPLETED with the completion instant the
\* callback took, or is retried when the document changed since its read.
CompleteCommit(p) ==
    LET c == wcall[p]
    IN  /\ c.pc = "commit"
        /\ IF DocOpt(workflows, c.id) # c.snap
           THEN /\ wcall' = [wcall EXCEPT ![p] = [c EXCEPT !.pc = "callback", !.snap = Null]]
                /\ UNCHANGED <<workflows, wout, wwrites, wret>>
           ELSE /\ workflows' = Put(workflows, c.id,
                      Merge(c.snap[1], [status |-> "COMPLETED",
                                        completedAt |-> c.completedAt]))
                /\ wout' = [wout EXCEPT ![c.id].completed = @ + 1]
                /\ wwrites' = [wwrites EXCEPT ![c.id] = @ + 1]
                /\ wcall' = [wcall EXCEPT ![p] = IdleWf]
                /\ wret' = Success("complete", [status |-> "COMPLETED"])
        /\ UNCHANGED <<users, now, nwcalls>>
        /\ UNCHANGED eventVars
        /\ UNCHANGED fnVars
        /\ UNCHANGED asyncVars
        /\ UNCHANGED schedVars
        /\ UNCHANGED creditVars

\* Time passes: up to, or just past, the expiry instant of some workflow.
ClockWf ==
    /\ now' \in {t \in UNION {{workflows[w].expiresAt, workflows[w].expiresAt + 1} :
                                  w \in DOMAIN workflows} : t > now}
    /\ UNCHANGED <<users, workflows, wcall, wout, wwrites, nwcalls, wret>>
    /\ UNCHANGED eventVars
    /\ UNCHANGED fnVars
    /\ UNCHANGED asyncVars
    /\ UNCHANGED schedVars
    /\ UNCHANGED creditVars

----------------------------------------------------------------------------
(* Notification scheduling: services/user.ts, scripts/backfillNotificationPrefs.ts *)

MaxSchedOps == 4       \* preference updates, driver runs and clock advances per behaviour
HoursAhead == 23
DEVICE_ACTIVE_DAYS == 30
WindowMinutes == 10

SchedUsers == {"u1"}
Runs == {"r1"}
\* The invocations of the driver when two of them may be in flight at once.
AllRuns == {"r1", "r2"}
DeviceIds == {"d1", "d2"}
DeviceOwner == [d \in DeviceIds |-> "u1"]
\* The sets of devices for which a push, or the add of a delivery record, fails.
FailingDevices == {{}, {"d2"}}

DEFAULT_TIMEZONE == "Asia/Kolkata"
NOTIFICATION_TYPES == {"weight", "breakfast", "lunch", "dinner", "snacks"}
NOTIFICATION_DEFAULTS ==
    [weight |-> [enabled |-> TRUE, hour |-> 7, minute |-> 30],
     breakfast |-> [enabled |-> TRUE, hour |-> 8, minute |-> 30],
     lunch |-> [enabled |-> TRUE, hour |-> 13, minute |-> 0],
     snacks |-> [enabled |-> TRUE, hour |-> 17, minute |-> 0],
     dinner |-> [enabled |-> TRUE, hour |-> 20, minute |-> 30]]

\* NotificationPrefInput and the optional timezone override of the request.
PrefInputs ==
    [type : {"breakfast", "dinner"},
     enabled : BOOLEAN,
     time : {Null},
     userTimezone : {Null, Some("UTC")}]

Min(S) == CHOOSE x \in S : \A y \in S : x <= y

Without(doc, fields) == [f \in DOMAIN doc \ fields |-> doc[f]]

\* Date.getUTCHours, and the hour and minute Intl.DateTimeFormat gives for
\* the instant in the zone.
UTCHour(at) == (at % MinutesPerDay) \div MinutesPerHour

LocalHour(at, timezone) == ((at + TzOffset(timezone)) % MinutesPerDay) \div MinutesPerHour

LocalMinute(at, timezone) == (at + TzOffset(timezone)) % MinutesPerHour

\* localTimeToNextUTC, evaluated when the clock reads at.
localTimeToNextUTC(hour, minute, timezone, at) ==
    LET localHour == LocalHour(at, timezone)
        localMinute == LocalMinute(at, timezone)
        offsetHours == LocalHour(at, timezone) - UTCHour(at)
        shifted == hour - offsetHours
        targetUTCHour == IF shifted < 0 THEN shifted + 24
                         ELSE IF shifted >= 24 THEN shifted - 24
                         ELSE shifted
        targetDate == (at \div MinutesPerDay) * MinutesPerDay
                        + targetUTCHour * MinutesPerHour + minute
        hasPassed == localHour > hour \/ (localHour = hour /\ localMinute >= minute)
    IN  IF hasPassed THEN targetDate + MinutesPerDay ELSE targetDate

computeNextNotificationAllEnabled(prefs, timezone, at) ==
    LET enabledTypes == {type \in NOTIFICATION_TYPES \cap DOMAIN prefs : prefs[type].enabled}
        nextOf(type) == localTimeToNextUTC(prefs[type].hour, prefs[type].minute, timezone, at)
    IN  IF enabledTypes = {} THEN [nextUTC |-> Null, types |-> {}]
        ELSE [nextUTC |-> Some(Min({nextOf(type) : type \in enabledTypes})),
              types |-> enabledTypes]

\* computeNextNotification: prefs is the stored map (empty when absent).
computeNextNotification(prefs, timezone, at) ==
    LET enabledTypes == {type \in NOTIFICATION_TYPES \cap DOMAIN prefs : prefs[type].enabled}
        nextOf(type) == localTimeToNextUTC(prefs[type].hour, prefs[type].minute, timezone, at)
    IN  IF enabledTypes = {} THEN [nextUTC |-> Null, types |-> {}]
        ELSE LET minTime == Min({nextOf(type) : type \in enabledTypes})
             IN  [nextUTC |-> Some(minTime),
                  types |-> {type \in enabledTypes : nextOf(type) = minTime}]

\* getWindowKey: the instant floored to the start of its 10-minute window.
getWindowKey(date) == (date \div WindowMinutes) * WindowMinutes

\* The nextNotificationUTC / nextNotificationTypes part of an update:
\* both set, or both FieldValue.delete().
ApplyNext(doc, next) ==
    IF next.nextUTC # Null
    THEN Merge(doc, [nextNotificationUTC |-> next.nextUTC[1],
                     nextNotificationTypes |-> next.types])
    ELSE Without(doc, {"nextNotificationUTC", "nextNotificationTypes"})

IdlePref ==
    [pc |-> "idle", uid |-> "", input |-> Null, userTimezone |-> Null,
     next |-> [nextUTC |-> Null, types |-> {}], at |-> 0]

\* updateNotificationPref up to its update: the get, the merged
\* preferences and the schedule computed from them.
PrefRead(uid, input) ==
    LET userData == IF uid \in DOMAIN users THEN users[uid] ELSE EmptyDoc
        timezone == IF input.userTimezone # Null THEN input.userTimezone[1]
                    ELSE Field(userData, "timezone", DEFAULT_TIMEZONE)
        existingPrefs == Field(userData, "notificationPrefs", EmptyDoc)
        defaults == NOTIFICATION_DEFAULTS[input.type]
        newPref == [enabled |-> input.enabled,
                    hour |-> IF input.time # Null THEN input.time[1].hour ELSE defaults.hour,
                    minute |-> IF input.time # Null THEN input.time[1].minute ELSE defaults.minute]
        updatedPrefs == Put(existingPrefs, input.type, newPref)
    IN  /\ pcall.pc = "idle"
        /\ nops < MaxSchedOps
        /\ nops' = nops + 1
        /\ IF ValidZone(timezone)
           THEN pcall' = [pc |-> "update", uid |-> uid,
                          input |-> Some([type |-> input.type, pref |-> newPref]),
                          userTimezone |-> input.userTimezone,
                          next |-> computeNextNotification(updatedPrefs, timezone, now),
                          at |-> now]
           ELSE UNCHANGED pcall
        /\ UNCHANGED <<users, now, devices, run, pushes, notifications, advanced,
                       dropped>>
        /\ UNCHANGED eventVars
        /\ UNCHANGED fnVars
        /\ UNCHANGED asyncVars
        /\ UNCHANGED wfVars
        /\ UNCHANGED creditVars

\* updateNotificationPref's update: the one preference is merged into the
\* stored map; the update fails when the document does not exist.
PrefUpdate ==
    LET uid == pcall.uid
        doc == users[uid]
        withPref == Merge(doc,
            [notificationPrefs |->
                 Put(Field(doc, "notificationPrefs", EmptyDoc),
                     pcall.input[1].type, pcall.input[1].pref),
             updatedAt |-> pcall.at,
             lastActiveAt |-> pcall.at])
        withZone == IF pcall.userTimezone # Null
                    THEN Merge(withPref, [timezone |-> pcall.userTimezone[1]])
                    ELSE withPref
    IN  /\ pcall.pc = "update"
        /\ IF uid \in DOMAIN users
           THEN users' = Put(users, uid, ApplyNext(withZone, pcall.next))
           ELSE UNCHANGED users
        /\ pcall' = IdlePref
        /\ UNCHANGED <<now, devices, run, pushes, notifications, advanced,
                       dropped, nops>>
        /\ UNCHANGED eventVars
        /\ UNCHANGED fnVars
        /\ UNCHANGED asyncVars
        /\ UNCHANGED wfVars
        /\ UNCHANGED creditVars

\* The devices collection after upsertDevice has registered the given devices.
RegisteredDevices(ids, at) ==
    [d \in ids |-> [deviceId |-> d, uid |-> DeviceOwner[d], lastSeenAt |-> at]]

\* getActiveDevices
getActiveDevices ==
    {d \in DOMAIN devices :
        devices[d].lastSeenAt >= now - DEVICE_ACTIVE_DAYS * MinutesPerDay}

\* getEligibleUsers: the indexed query nextNotificationUTC <= now.
getEligibleUsers ==
    {uid \in DOMAIN users :
        /\ "nextNotificationUTC" \in DOMAIN users[uid]
        /\ users[uid].nextNotificationUTC <= now}

----------------------------------------------------------------------------
(* The cron driver: handlers/unifiedCron.ts *)

IdleRun ==
    [pc |-> "idle", windowKey |-> 0, usersToNotify |-> << >>, i |-> 0,
     activeDevices |-> {}, next |-> [nextUTC |-> Null, types |-> {}], at |-> 0,
     payloads |-> {}, failed |-> {}, committed |-> {},
     rejected |-> {}, threw |-> FALSE]

\* The documents of a query snapshot, in the order of the indexed field.
QueryOrder(uids) ==
    CHOOSE seq \in [1..Cardinality(uids) -> uids] :
        /\ \A j, k \in DOMAIN seq : j # k => seq[j] # seq[k]
        /\ \A j, k \in DOMAIN seq :
              j < k => users[seq[j]].nextNotificationUTC <= users[seq[k]].nextNotificationUTC

\* EligibleUser
EligibleUser(uid) ==
    [uid |-> uid,
     timezone |-> Field(users[uid], "timezone", DEFAULT_TIMEZONE),
     notificationTypes |-> Field(users[uid], "nextNotificationTypes", {}),
     lastNotificationWindow |-> IF "lastNotificationWindow" \in DOMAIN users[uid]
                                THEN Some(users[uid].lastNotificationWindow) ELSE Null]

\* user.lastNotificationWindow !== windowKey
KeepsEveryUser(user, windowKey) == TRUE

NotYetProcessed(user, windowKey) == user.lastNotificationWindow # Some(windowKey)

\* `${type}_${user.uid}_${windowKey}`
NotificationId(type, uid, windowKey) == <<type, uid, windowKey>>

\* sendUnifiedNotifications steps 1-4: the window key, the query for due
\* users (an empty list when the query fails), the window filter and the
\* read of the active devices.
RunQuery(r) ==
    LET windowKey == getWindowKey(now)
    IN  /\ run[r].pc = "idle"
        /\ nops < MaxSchedOps
        /\ nops' = nops + 1
        /\ \E queryOk \in BOOLEAN :
            LET due == IF queryOk THEN getEligibleUsers ELSE {}
                ordered == QueryOrder(due)
                eligibleUsers == [j \in DOMAIN ordered |-> EligibleUser(ordered[j])]
                Keep(user) == NotYetProcessed(user, windowKey)
                usersToNotify == SelectSeq(eligibleUsers, Keep)
            IN  /\ dropped' = dropped \cup
                      {<<eligibleUsers[j].uid, windowKey>> : j \in
                          {k \in DOMAIN eligibleUsers : ~Keep(eligibleUsers[k])}}
                /\ run' = [run EXCEPT ![r] =
                      IF usersToNotify = << >> THEN IdleRun
                      ELSE [IdleRun EXCEPT !.pc = "advance", !.windowKey = windowKey,
                                           !.usersToNotify = usersToNotify, !.i = 1,
                                           !.activeDevices = getActiveDevices]]
        /\ UNCHANGED <<users, now, devices, pcall, pushes, notifications, advanced>>
        /\ UNCHANGED eventVars
        /\ UNCHANGED fnVars
        /\ UNCHANGED asyncVars
        /\ UNCHANGED wfVars
        /\ UNCHANGED creditVars

\* The rest of the loop body for the current user after
\* scheduleNextNotification has returned: one payload per due type and
\* active device of the user, then the next user or the send.
AfterSchedule(rr, wrote) ==
    LET user == rr.usersToNotify[rr.i]
        userDevices == {d \in rr.activeDevices : devices[d].uid = user.uid}
        payloads == rr.payloads \cup
            {[type |-> type, uid |-> user.uid, deviceId |-> d] :
                type \in user.notificationTypes, d \in userDevices}
        committed == IF wrote THEN rr.committed \cup {user.uid} ELSE rr.committed
    IN  IF rr.i < Len(rr.usersToNotify)
        THEN [rr EXCEPT !.pc = "advance", !.i = rr.i + 1, !.payloads = payloads,
                        !.committed = committed]
        ELSE IF payloads = {} THEN IdleRun
        ELSE [rr EXCEPT !.pc = "send", !.i = rr.i + 1, !.payloads = payloads,
                        !.committed = committed]

\* scheduleNextNotification up to its update: the get and the schedule
\* computed from the stored preferences, moved a day ahead when it is less
\* than 23 hours away.  A failed get or a missing document makes the
\* function return without writing.
ScheduleRead(r) ==
    LET rr == run[r]
        uid == rr.usersToNotify[rr.i].uid
    IN  /\ rr.pc = "advance"
        /\ \E getOk \in BOOLEAN :
            IF getOk /\ uid \in DOMAIN users
               /\ ValidZone(Field(users[uid], "timezone", DEFAULT_TIMEZONE))
            THEN LET userData == users[uid]
                     timezone == Field(userData, "timezone", DEFAULT_TIMEZONE)
                     computed == computeNextNotification(
                                    Field(userData, "notificationPrefs", EmptyDoc),
                                    timezone, now)
                     minNextTime == now + HoursAhead * MinutesPerHour
                     next == IF computed.nextUTC # Null /\ computed.nextUTC[1] < minNextTime
                             THEN [computed EXCEPT !.nextUTC = Some(@[1] + MinutesPerDay)]
                             ELSE computed
                 IN  run' = [run EXCEPT ![r] = [rr EXCEPT !.pc = "write", !.next = next,
                                                          !.at = now]]
            ELSE run' = [run EXCEPT ![r] = AfterSchedule(rr, FALSE)]
        /\ UNCHANGED <<users, now, devices, pcall, pushes, notifications, advanced,
                       dropped, nops>>
        /\ UNCHANGED eventVars
        /\ UNCHANGED fnVars
        /\ UNCHANGED asyncVars
        /\ UNCHANGED wfVars
        /\ UNCHANGED creditVars

\* scheduleNextNotification's update, whose failure is logged and swallowed.
ScheduleWrite(r) ==
    LET rr == run[r]
        uid == rr.usersToNotify[rr.i].uid
    IN  /\ rr.pc = "write"
        /\ \E updateOk \in BOOLEAN :
            IF updateOk /\ uid \in DOMAIN users
            THEN /\ users' = Put(users, uid,
                        ApplyNext(Merge(users[uid],
                                        [lastNotificationWindow |-> rr.windowKey,
                                         lastActiveAt |-> rr.at]),
                                  rr.next))
                 /\ advanced' = advanced \cup {<<uid, rr.windowKey>>}
                 /\ run' = [run EXCEPT ![r] = AfterSchedule(rr, TRUE)]
            ELSE /\ UNCHANGED <<users, advanced>>
                 /\ run' = [run EXCEPT ![r] = AfterSchedule(rr, FALSE)]
        /\ UNCHANGED <<now, devices, pcall, pushes, notifications, dropped, nops>>
        /\ UNCHANGED eventVars
        /\ UNCHANGED fnVars
        /\ UNCHANGED asyncVars
        /\ UNCHANGED wfVars
        /\ UNCHANGED creditVars

FCM_BATCH_SIZE == 500

\* sendPushNotification: the rejection of messaging().send is caught and
\* returned as a failed result.
sendPushNotification(payload, rejected) ==
    IF rejected THEN [success |-> FALSE, error |-> Some("FCM send failed")]
    ELSE [success |-> TRUE, error |-> Null]

SendResult(payload, result) ==
    [deviceId |-> payload.deviceId, uid |-> payload.uid,
     notificationId |-> payload.notificationId,
     success |-> result.success, error |-> result.error]

sendBatchNotificationsStopAtFailure(payloads, failing) ==
    LET sent == IF failing = {} THEN Len(payloads) ELSE Min(failing)
    IN  [j \in 1..sent |->
            SendResult(payloads[j], sendPushNotification(payloads[j], j \in failing))]

\* The loop of sendBatchNotifications from index i on: the batch of
\* FCM_BATCH_SIZE payloads that starts at i, then the following batches.
RECURSIVE SendBatches(_, _, _)
SendBatches(payloads, failing, i) ==
    IF i > Len(payloads) THEN << >>
    ELSE LET last == Min({i + FCM_BATCH_SIZE - 1, Len(payloads)})
             batchResults ==
                 [j \in 1..(last - i + 1) |->
                     SendResult(payloads[i + j - 1],
                                sendPushNotification(payloads[i + j - 1],
                                                     (i + j - 1) \in failing))]
         IN  batchResults \o SendBatches(payloads, failing, i + FCM_BATCH_SIZE)

\* sendBatchNotifications; failing holds the indices of the payloads whose
\* FCM send is rejected.
sendBatchNotifications(payloads, failing) == SendBatches(payloads, failing, 1)

\* PreparedNotification, with the type that payloadMeta keeps at the same index.
Prepared(pl, windowKey) ==
    [deviceId |-> pl.deviceId, uid |-> pl.uid, type |-> pl.type,
     notificationId |-> NotificationId(pl.type, pl.uid, windowKey)]

\* The payloads of a run in the order they were pushed.
RECURSIVE PayloadOrder(_)
PayloadOrder(payloads) ==
    IF payloads = {} THEN << >>
    ELSE LET first == CHOOSE pl \in payloads : TRUE
         IN  <<first>> \o PayloadOrder(payloads \ {first})

\* The payloads of order whose push is reported as failed when the pushes to
\* the devices in unreachable are rejected.
FailedPushes(order, windowKey, unreachable) ==
    LET allPayloads == [j \in DOMAIN order |-> Prepared(order[j], windowKey)]
        failing == {j \in DOMAIN order : order[j].deviceId \in unreachable}
        allResults == sendBatchNotifications(allPayloads, failing)
    IN  {order[j] : j \in {k \in DOMAIN allResults : ~allResults[k].success}}

\* Step 6: sendBatchNotifications on the payloads of the run; the pushes to
\* the devices in unreachable are rejected.
RunSend(r) ==
    LET rr == run[r]
        keys == {[type |-> pl.type, uid |-> pl.uid, deviceId |-> pl.deviceId,
                  window |-> rr.windowKey] : pl \in rr.payloads}
    IN  /\ rr.pc = "send"
        /\ \E order \in {PayloadOrder(rr.payloads)}, unreachable \in FailingDevices :
              run' = [run EXCEPT ![r] =
                  [rr EXCEPT !.pc = "log",
                             !.failed = FailedPushes(order, rr.windowKey, unreachable)]]
        /\ pushes' = [k \in DOMAIN pushes \cup keys |->
                          (IF k \in DOMAIN pushes THEN pushes[k] ELSE 0)
                          + (IF k \in keys THEN 1 ELSE 0)]
        /\ UNCHANGED <<users, now, devices, pcall, notifications, advanced, dropped, nops>>
        /\ UNCHANGED eventVars
        /\ UNCHANGED fnVars
        /\ UNCHANGED asyncVars
        /\ UNCHANGED wfVars
        /\ UNCHANGED creditVars

\* The delivery record of a payload.
NotificationDoc(rr, pl) ==
    [notification_id |-> NotificationId(pl.type, pl.uid, rr.windowKey),
     device_id |-> pl.deviceId, uid |-> pl.uid, notification_type |-> pl.type,
     delivery_status |-> IF pl \in rr.failed THEN "failed" ELSE "success"]

\* z.string().uuid(): a UUID is written <<"uuid", n>>; the notification id
\* <<type, uid, windowKey>> stands for `${type}_${uid}_${windowKey}`.
IsUuid(id) == Len(id) = 2 /\ id[1] = "uuid"

\* randomUUID
generateEventId(seed) == <<"uuid", seed>>

\* The schema trackEventTx validates the metadata of a NOTIFICATION_DELIVERED
\* event against.
NotificationDeliveredMetadata(metadata) ==
    /\ IsUuid(metadata.notification_id)
    /\ metadata.notification_type # ""
    /\ metadata.delivery_status \in {"success", "failed"}

\* The parameters step 7 hands to trackEventAsync for a payload.
DeliveredArgs(rr, pl, at) ==
    [eventId |-> generateEventId(<<pl, rr.windowKey, at>>),
     eventName |-> "NOTIFICATION_DELIVERED", userId |-> pl.uid,
     timestamp |-> at, timezone |-> "UTC",
     metadata |-> [notification_id |-> NotificationId(pl.type, pl.uid, rr.windowKey),
                   notification_type |-> pl.type,
                   delivery_status |-> IF pl \in rr.failed THEN "failed" ELSE "success",
                   device_id |-> pl.deviceId]]

\* Step 7: logNotification adds one record per result, and after the add
\* trackEventAsync is called for the payload. An add that is rejected (here
\* the adds for the devices in lost) rejects Promise.all and the run throws;
\* the other adds have been issued. trackEventAsync records the event when
\* trackEventTx accepts its metadata, and swallows the error when it does not.
RunLog(r) ==
    LET rr == run[r]
    IN  /\ rr.pc = "log"
        /\ \E lost \in FailingDevices :
            LET written == {pl \in rr.payloads : pl.deviceId \notin lost}
                docs == {NotificationDoc(rr, pl) : pl \in written}
                tracked == {DeliveredArgs(rr, pl, now) : pl \in written}
                accepted == {a \in tracked : NotificationDeliveredMetadata(a.metadata)}
            IN  /\ notifications' = [n \in DOMAIN notifications \cup docs |->
                                      (IF n \in DOMAIN notifications THEN notifications[n] ELSE 0)
                                      + (IF n \in docs THEN 1 ELSE 0)]
                /\ IF accepted = {}
                   THEN UNCHANGED <<events, users>>
                   ELSE /\ events' = [e \in DOMAIN events \cup {a.eventId : a \in accepted} |->
                                         IF e \in DOMAIN events THEN events[e]
                                         ELSE EventDoc(CHOOSE a \in accepted : a.eventId = e, now)]
                        /\ users' = [uid \in DOMAIN users \cup {a.userId : a \in accepted} |->
                                        IF \E a \in accepted : a.userId = uid
                                        THEN UserWrite(CHOOSE a \in accepted : a.userId = uid,
                                                       DocOpt(users, uid), now)
                                        ELSE users[uid]]
                /\ run' = [run EXCEPT ![r] =
                              [IdleRun EXCEPT !.rejected = rr.payloads \ written,
                                              !.threw = (written # rr.payloads)]]
        /\ UNCHANGED <<now, devices, pcall, pushes, advanced, dropped, nops>>
        /\ UNCHANGED <<tcall, outcomes, applied, ncalls, foreign>>
        /\ UNCHANGED fnVars
        /\ UNCHANGED asyncVars
        /\ UNCHANGED wfVars
        /\ UNCHANGED creditVars

\* The process running the driver is killed.
Crash(r) ==
    /\ run[r].pc # "idle"
    /\ run' = [run EXCEPT ![r] = IdleRun]
    /\ UNCHANGED <<users, now, devices, pcall, pushes, notifications, advanced,
                   dropped, nops>>
    /\ UNCHANGED eventVars
    /\ UNCHANGED fnVars
    /\ UNCHANGED asyncVars
    /\ UNCHANGED wfVars
    /\ UNCHANGED creditVars

\* Time passes: five minutes, or up to the stored next instant of a user.
ClockSched ==
    /\ nops < MaxSchedOps
    /\ nops' = nops + 1
    /\ now' \in {now + 5} \cup
                {t \in {users[uid].nextNotificationUTC :
                           uid \in {u \in DOMAIN users : "nextNotificationUTC" \in DOMAIN users[u]}} :
                     t > now}
    /\ UNCHANGED <<users, devices, pcall, run, pushes, notifications, advanced,
                   dropped>>
    /\ UNCHANGED eventVars
    /\ UNCHANGED fnVars
    /\ UNCHANGED asyncVars
    /\ UNCHANGED wfVars
    /\ UNCHANGED creditVars

\* The events of a scheduled user that reach trackEventTx.
SchedTrackArgs ==
    {a \in TrackArgs : /\ a.eventId = "e1"
                       /\ a.eventName = "FOOD_ANALYZED"
                       /\ a.timestamp = 2 * MinutesPerDay + 1200
                       /\ a.timezone = "Asia/Kolkata"
                       /\ a.metadata = "ok"}

----------------------------------------------------------------------------
(* The schedule and transport functions, evaluated on their own *)

ConvZones == {"UTC", "Asia/Kolkata", "America/Los_Angeles"}

\* Instants at which the functions read the clock: from 14:30 UTC of the
\* first day to 07:45 UTC of the next (hours 26 and 31). At some of them the
\* date in Kolkata is a day ahead of the UTC date, at others the date in Los
\* Angeles is a day behind it.
ConvInstants ==
    {(StartInstant \div MinutesPerDay) * MinutesPerDay + h * MinutesPerHour + m :
        h \in {14, 20, 23, 26, 31}, m \in {0, 25, 30, 45}}

Hours == 0..23
GridMinutes == {0, 10, 20, 30, 40, 50}

\* Stored preference maps: absent, or every type disabled, enabled at its
\* default time, or enabled at 08:30.
PrefChoices(type) ==
    {[enabled |-> FALSE, hour |-> NOTIFICATION_DEFAULTS[type].hour,
      minute |-> NOTIFICATION_DEFAULTS[type].minute],
     NOTIFICATION_DEFAULTS[type],
     [enabled |-> TRUE, hour |-> 8, minute |-> 30]}

PrefMaps ==
    {EmptyDoc} \cup
    {prefs \in [NOTIFICATION_TYPES -> UNION {PrefChoices(t) : t \in NOTIFICATION_TYPES}] :
        \A t \in NOTIFICATION_TYPES : prefs[t] \in PrefChoices(t)}

NoCall == [fn |-> "", args |-> <<>>, at |-> 0, result |-> <<>>]

ConvertLocalTime(hour, minute, timezone) ==
    /\ fcall = NoCall
    /\ fcall' = [fn |-> "localTimeToNextUTC", args |-> <<hour, minute, timezone>>,
                 at |-> now,
                 result |-> <<localTimeToNextUTC(hour, minute, timezone, now)>>]
    /\ UNCHANGED <<users, now>>
    /\ UNCHANGED eventVars
    /\ UNCHANGED wfVars
    /\ UNCHANGED schedVars
    /\ UNCHANGED asyncVars
    /\ UNCHANGED creditVars

ComputeNext(prefs, timezone) ==
    /\ fcall = NoCall
    /\ fcall' = [fn |-> "computeNextNotification", args |-> <<prefs, timezone>>,
                 at |-> now,
                 result |-> <<computeNextNotification(prefs, timezone, now)>>]
    /\ UNCHANGED <<users, now>>
    /\ UNCHANGED eventVars
    /\ UNCHANGED wfVars
    /\ UNCHANGED schedVars
    /\ UNCHANGED asyncVars
    /\ UNCHANGED creditVars

\* Batches of up to MaxBatch prepared payloads of one user and one window.
MaxBatch == 3

BatchPayloads ==
    {Prepared([type |-> type, uid |-> "u1", deviceId |-> d], getWindowKey(StartInstant)) :
        type \in {"breakfast", "dinner"}, d \in DeviceIds}

Batches == UNION {[1..n -> BatchPayloads] : n \in 0..MaxBatch}

SendBatch(payloads, failing) ==
    /\ fcall = NoCall
    /\ fcall' = [fn |-> "sendBatchNotifications", args |-> <<payloads, failing>>,
                 at |-> now,
                 result |-> <<sendBatchNotifications(payloads, failing)>>]
    /\ UNCHANGED <<users, now>>
    /\ UNCHANGED eventVars
    /\ UNCHANGED wfVars
    /\ UNCHANGED schedVars
    /\ UNCHANGED asyncVars
    /\ UNCHANGED creditVars

ClockConv ==
    /\ fcall = NoCall
    /\ now = StartInstant
    /\ now' \in {t \in ConvInstants : t > now}
    /\ UNCHANGED users
    /\ UNCHANGED eventVars
    /\ UNCHANGED wfVars
    /\ UNCHANGED schedVars
    /\ UNCHANGED fnVars
    /\ UNCHANGED asyncVars
    /\ UNCHANGED creditVars

----------------------------------------------------------------------------
(* Specifications *)

InitCommon ==
    /\ now = StartInstant
    /\ events = EmptyDoc
    /\ tcall = [p \in Procs |-> IdleCall]
    /\ outcomes = [e \in AllEventIds |-> [created |-> 0, duplicate |-> 0, contended |-> 0]]
    /\ applied = [e \in AllEventIds |-> 0]
    /\ ncalls = 0
    /\ foreign = {}
    /\ workflows = EmptyDoc
    /\ wcall = [p \in Procs |-> IdleWf]
    /\ wout = [w \in WorkflowIds |-> NoReturns]
    /\ wwrites = [w \in WorkflowIds |-> 0]
    /\ nwcalls = 0
    /\ wret = NoReturn
    /\ pcall = IdlePref
    /\ run = [r \in AllRuns |-> IdleRun]
    /\ pushes = EmptyDoc
    /\ notifications = EmptyDoc
    /\ advanced = {}
    /\ dropped = {}
    /\ nops = 0
    /\ fcall = NoCall
    /\ areport = {}
    /\ ccall = [q \in Procs |-> IdleCredit]
    /\ chist = NoCredits

\* No user yet, or the user initializeUser has created.
Init ==
    /\ InitCommon
    /\ users \in {EmptyDoc, Put(EmptyDoc, "u1", NewUserDoc(now))}
    /\ devices = EmptyDoc

NextEvents ==
    \/ \E p \in Procs, a \in TrackArgs : TrackStart(p, a)
    \/ \E p \in Procs : TrackRetry(p)
    \/ \E p \in Procs : TrackCommit(p)
    \/ ClockEvents

SpecEvents == Init /\ [][NextEvents]_vars

\* Resubmissions of one event id by two users, with either kind and either
\* metadata.
ReplayArgs ==
    [eventId : {"e1"}, eventName : EventNames, userId : Users,
     timestamp : {2 * MinutesPerDay + 1200}, timezone : {"UTC"},
     metadata : {"ok", "alt"}]

NextReplay ==
    \/ \E p \in Procs, a \in ReplayArgs : TrackStart(p, a)
    \/ \E p \in Procs : TrackRetry(p)
    \/ \E p \in Procs : TrackCommit(p)
    \/ ClockEvents

SpecReplay == Init /\ [][NextReplay]_vars

\* Calls with valid and with invalid metadata, on two event ids.
RejectArgs ==
    [eventId : {"e1", "e2"}, eventName : EventNames, userId : Users,
     timestamp : {2 * MinutesPerDay + 1200}, timezone : {"UTC"},
     metadata : {"ok", "bad"}]

NextReject ==
    \/ \E p \in Procs, a \in RejectArgs : TrackStart(p, a)
    \/ \E p \in Procs : TrackRetry(p)
    \/ \E p \in Procs : TrackCommit(p)
    \/ ClockEvents

SpecReject == Init /\ [][NextReject]_vars

NextAsync ==
    \/ \E p \in Procs, params \in AsyncArgs : AsyncStart(p, params)
    \/ \E p \in Procs : AsyncRetry(p)
    \/ \E p \in Procs : AsyncCommit(p)
    \/ \E p \in Procs : AsyncAbort(p)
    \/ ClockEvents

SpecAsync == Init /\ [][NextAsync]_vars

\* Measurement logs of one user under three event ids, on the local dates
\* 1, 2 and 3 in any order.
StreakArgs ==
    [eventId : AllEventIds, eventName : {WEIGHT_LOGGED}, userId : EventUsers,
     timestamp : EventInstants, timezone : Zones, metadata : {"ok"}]

NextStreak ==
    \/ \E p \in Procs, a \in StreakArgs : TrackStart(p, a)
    \/ \E p \in Procs : TrackRetry(p)
    \/ \E p \in Procs : TrackCommit(p)
    \/ ClockEvents

SpecStreak == Init /\ [][NextStreak]_vars

NextWf ==
    \/ \E params \in CreateParams : CreateWorkflow(params)
    \/ \E p \in Procs, id \in WorkflowIds \cup {MalformedId} : ResolveRead(p, id)
    \/ \E p \in Procs : ResolveUpdate(p)
    \/ \E p \in Procs, id \in WorkflowIds \cup {MalformedId} : CompleteStart(p, id)
    \/ \E p \in Procs : CompleteRetry(p)
    \/ \E p \in Procs : CompleteStamp(p)
    \/ \E p \in Procs : CompleteCommit(p)
    \/ ClockWf

InitWf == InitCommon /\ users = EmptyDoc /\ devices = EmptyDoc

SpecWf == InitWf /\ [][NextWf]_vars

NextSched ==
    \/ \E uid \in SchedUsers, input \in PrefInputs : PrefRead(uid, input)
    \/ PrefUpdate
    \/ \E r \in Runs : RunQuery(r)
    \/ \E r \in Runs : ScheduleRead(r)
    \/ \E r \in Runs : ScheduleWrite(r)
    \/ \E r \in Runs : RunSend(r)
    \/ \E r \in Runs : RunLog(r)
    \/ \E r \in Runs : Crash(r)
    \/ ClockSched
    \/ \E a \in SchedTrackArgs : ncalls = 0 /\ TrackStart("p1", a)
    \/ TrackRetry("p1")
    \/ TrackCommit("p1")

\* An initialised user without notification preferences, with no device or
\* with two registered devices.
InitSched ==
    /\ InitCommon
    /\ users = Put(EmptyDoc, "u1", NewUserDoc(now))
    /\ devices \in {RegisteredDevices(ids, now) : ids \in {{}, DeviceIds}}

SpecSched == InitSched /\ [][NextSched]_vars

\* scheduleNextNotification when the store answers its get and its update.
ScheduleReadOk(r) ==
    /\ ScheduleRead(r)
    /\ run'[r].pc = "write"

ScheduleWriteOk(r) ==
    /\ ScheduleWrite(r)
    /\ run'[r] = AfterSchedule(run[r], TRUE)

\* Two invocations of the driver that may overlap, over a store that does
\* not fail inside scheduleNextNotification.
NextOverlap ==
    \/ \E uid \in SchedUsers, input \in PrefInputs : PrefRead(uid, input)
    \/ PrefUpdate
    \/ \E r \in AllRuns : RunQuery(r)
    \/ \E r \in AllRuns : ScheduleReadOk(r)
    \/ \E r \in AllRuns : ScheduleWriteOk(r)
    \/ \E r \in AllRuns : RunSend(r)
    \/ \E r \in AllRuns : RunLog(r)
    \/ ClockSched

SpecOverlap == InitSched /\ [][NextOverlap]_vars

\* One measurement log of the user whose credits are used.
CreditTrackArgs ==
    [eventId : {"e1"}, eventName : {WEIGHT_LOGGED}, userId : {"u1"},
     timestamp : {2 * MinutesPerDay + 1200}, timezone : {"UTC"}, metadata : {"ok"}]

NextCredits ==
    \/ \E q \in Procs : DeductStart(q, "u1")
    \/ \E q \in Procs : DeductRetry(q)
    \/ \E q \in Procs : DeductCommit(q)
    \/ \E q \in Procs : GetOrCreateRead(q, "u1")
    \/ \E q \in Procs : InitializeRead(q)
    \/ \E q \in Procs : InitializeSet(q)
    \/ \E q \in Procs : GetOrCreateTouch(q)
    \/ \E p \in Procs, a \in CreditTrackArgs : TrackStart(p, a)
    \/ \E p \in Procs : TrackRetry(p)
    \/ \E p \in Procs : TrackCommit(p)

\* No user yet, or a user who has used all but one of the free credits.
InitCredits ==
    /\ InitCommon
    /\ users \in {EmptyDoc,
                  Put(EmptyDoc, "u1",
                      Merge(NewUserDoc(now),
                            [aiCredits |-> 1, totalUsed |-> DEFAULT_FREE_CREDITS - 1]))}
    /\ devices = EmptyDoc

SpecCredits == InitCredits /\ [][NextCredits]_vars

NextConv ==
    \/ \E hour \in Hours, minute \in GridMinutes, timezone \in ConvZones :
           ConvertLocalTime(hour, minute, timezone)
    \/ \E prefs \in PrefMaps, timezone \in ConvZones : ComputeNext(prefs, timezone)
    \/ \E payloads \in Batches : \E failing \in SUBSET DOMAIN payloads :
           SendBatch(payloads, failing)
    \/ ClockConv

InitConv ==
    /\ InitCommon
    /\ users = EmptyDoc
    /\ devices = EmptyDoc

SpecConv == InitConv /\ [][NextConv]_vars

----------------------------------------------------------------------------
(* Event ledger: properties *)

\* The created WEIGHT_LOGGED events of user u, read off the ledger.
LoggedEvents(u) ==
    {e \in DOMAIN events : events[e].user_id = u /\ events[e].event_name = WEIGHT_LOGGED}

\* Some call with event id e returns in this step.
ReturnsFor(e) == outcomes'[e] # outcomes[e]

\* Process p's call, started in this step, has opened a transaction that did
\* not return from its first callback run: it goes on to commit writes.
StartsWriting(p) == tcall[p].pc = "idle" /\ tcall'[p].pc # "idle"

\* C1: once a trackEvent call with event id e has returned created, no call
\* with id e returns created again; a call with id e started afterwards
\* returns from its first callback run (as duplicate) instead of preparing
\* writes; and a step in which a call with id e returns leaves the users and
\* events collections (streak, last-log date, total logs, timezone,
\* last-active instant, the event record) exactly as they were.
C1_ReplayIsDuplicateAndChangesNothing ==
    [][\A e \in EventIds :
         outcomes[e].created >= 1 =>
            /\ outcomes'[e].created = outcomes[e].created
            /\ (ReturnsFor(e) =>
                  /\ outcomes'[e].duplicate = outcomes[e].duplicate + 1
                  /\ users' = users
                  /\ events' = events)
            /\ \A p \in Procs :
                 StartsWriting(p) => tcall'[p].args.eventId # e]_vars

\* C1's scenario: e1 on day D, e2 on day D+1 (streak 2), e1 replayed as a
\* duplicate, the streak still 2.
C1_Witness ==
    /\ {"e1", "e2"} \subseteq DOMAIN events
    /\ events["e1"].event_name = WEIGHT_LOGGED
    /\ events["e2"].event_name = WEIGHT_LOGGED
    /\ events["e2"].event_local_date = events["e1"].event_local_date + 1
    /\ outcomes["e1"].created = 1
    /\ outcomes["e1"].duplicate = 1
    /\ outcomes["e2"].created = 1
    /\ users["u1"].current_streak = 2

\* Process p's transaction commits the writes of a WEIGHT_LOGGED event in this step.
CreatesLog(p) ==
    /\ tcall[p].pc = "commit"
    /\ tcall[p].args.eventName = WEIGHT_LOGGED
    /\ tcall'[p].pc = "idle"

\* C2: when a WEIGHT_LOGGED event of local date d is created for a user with
\* stored streak s and stored last-log date prev, the new streak is 1 if prev
\* is absent, s if d = prev, s + 1 if d = prev + 1, 1 if d > prev + 1, and the
\* stored last-log date becomes d.
C2_StreakRule ==
    [][\A p \in Procs :
         CreatesLog(p) =>
            LET a == tcall[p].args
                u == a.userId
                old == IF u \in DOMAIN users THEN users[u] ELSE EmptyDoc
                s == Field(old, "current_streak", 0)
                prev == Field(old, "last_log_date", Null)
                d == events'[a.eventId].event_local_date
                new == users'[u].current_streak
            IN  /\ prev = Null => new = 1
                /\ (prev # Null /\ d = prev[1]) => new = s
                /\ (prev # Null /\ d = prev[1] + 1) => new = s + 1
                /\ (prev # Null /\ d > prev[1] + 1) => new = 1
                /\ users'[u].last_log_date = Some(d)]_vars

\* C2's cases have all happened for u1: a first log, then a consecutive day
\* (streak 2), seen from a later state whose last log is two days on (streak 1).
C2_Witness ==
    /\ "u1" \in DOMAIN users
    /\ Cardinality(LoggedEvents("u1")) = 2
    /\ \E e1 \in LoggedEvents("u1"), e2 \in LoggedEvents("u1") :
          events[e2].event_local_date = events[e1].event_local_date + 1
    /\ users["u1"].current_streak = 2
    /\ users["u1"].last_log_date = Some(3)

\* C9: concurrent calls with the same event id: at most one returns created,
\* a duplicate is returned only once one has returned created, the event
\* record exists exactly when one transaction has committed its writes, and
\* the writes (event record, streak and total-log update) of an event id are
\* committed exactly as often as created was returned, never twice.
C9_ExactlyOnceUnderConcurrency ==
    \A e \in EventIds :
        /\ outcomes[e].created <= 1
        /\ applied[e] = outcomes[e].created
        /\ (e \in DOMAIN events) = (applied[e] = 1)
        /\ outcomes[e].duplicate > 0 => outcomes[e].created = 1

\* Two calls with the same event id overlapped: one returned created, the
\* other lost the commit, ran its callback again and returned duplicate.
C9_Witness ==
    \E e \in EventIds :
        /\ outcomes[e].created = 1
        /\ outcomes[e].contended = 1
        /\ DOMAIN events = {e}
        /\ events[e].event_name = WEIGHT_LOGGED
        /\ users[events[e].user_id].current_streak = 1

\* C10: the stored total log count of every user equals the number of created
\* WEIGHT_LOGGED events of that user.
C10_TotalLogsCountsCreatedLogs ==
    \A u \in Users :
        LET doc == IF u \in DOMAIN users THEN users[u] ELSE EmptyDoc
        IN  Field(doc, "total_logs", 0) = Cardinality(LoggedEvents(u))

\* C11: once the record of an event id is written, no step changes any of
\* its fields or removes it, whoever resubmits the id and with whatever kind
\* or metadata; the collection holds one record per id.
C11_EventRecordIsImmutable ==
    [][\A e \in DOMAIN events :
          /\ e \in DOMAIN events'
          /\ events'[e] = events[e]
          /\ applied'[e] = applied[e]]_vars

\* The record of e1 was written for one user; resubmissions of e1, one of
\* them by the other user, returned duplicate, and the other user was given
\* no behavioural state.
C11_Witness ==
    /\ "e1" \in DOMAIN events
    /\ "e1" \in foreign
    /\ outcomes["e1"].created = 1
    /\ outcomes["e1"].duplicate = 2
    /\ applied["e1"] = 1
    /\ \A u \in Users \ {events["e1"].user_id} : u \notin DOMAIN users
    /\ \A p \in Procs : tcall[p].pc = "idle"

\* The local calendar dates on which user u has a logged measurement.
LogDates(u) == {events[e].event_local_date : e \in LoggedEvents(u)}

\* The number of consecutive dates of the set days that end at date d.
RECURSIVE ConsecutiveDaysEndingAt(_, _)
ConsecutiveDaysEndingAt(days, d) ==
    IF d \in days THEN 1 + ConsecutiveDaysEndingAt(days, d - 1) ELSE 0

\* C12: whatever the order in which a user's measurement logs were created,
\* the stored streak is the number of consecutive calendar days, ending at
\* the stored last-log date, that each hold a logged event of the user.
C12_StreakCountsConsecutiveDays ==
    \A u \in DOMAIN users :
        Field(users[u], "last_log_date", Null) # Null =>
            users[u].current_streak =
                ConsecutiveDaysEndingAt(LogDates(u), users[u].last_log_date[1])

----------------------------------------------------------------------------
(* Deferred-link workflows: properties *)

\* A completeWorkflow call for w returns in this step (success or 409).
CompleteReturnsFor(w) ==
    \/ wout'[w].completed # wout[w].completed
    \/ wout'[w].conflict # wout[w].conflict

\* The callback of a completeWorkflow call for w runs in this step and goes
\* on to prepare the completion write.
PreparesCompletion(p, w) ==
    /\ wcall[p].pc \in {"idle", "callback"}
    /\ wcall'[p].pc = "stamp"
    /\ wcall'[p].id = w

\* C6: completing a workflow that is already persisted COMPLETED returns
\* COMPLETED again and writes nothing, whether the calls come one after the
\* other or overlap; the completion is written at most once and the
\* completion instant set by the first call never changes afterwards.
C6_CompleteIsIdempotent ==
    [][\A w \in DOMAIN workflows :
          /\ wwrites'[w] <= 1
          /\ workflows[w].status = "COMPLETED" =>
                /\ workflows'[w].status = "COMPLETED"
                /\ workflows'[w].completedAt = workflows[w].completedAt
                /\ wwrites'[w] = wwrites[w]
                /\ \A p \in Procs : ~PreparesCompletion(p, w)
                /\ CompleteReturnsFor(w) =>
                      /\ wout'[w].completed = wout[w].completed + 1
                      /\ wout'[w].conflict = wout[w].conflict
                      /\ workflows' = workflows]_vars

\* Two overlapping calls both returned COMPLETED, one of them after its
\* transaction was retried, with a single completion write, made before expiry.
C6_Witness ==
    \E w \in DOMAIN workflows :
        /\ wout[w].completed = 2
        /\ wout[w].contended = 1
        /\ wout[w].conflict = 0
        /\ wwrites[w] = 1
        /\ workflows[w].status = "COMPLETED"
        /\ workflows[w].completedAt <= workflows[w].expiresAt
        /\ now > workflows[w].completedAt

----------------------------------------------------------------------------
(* Notification scheduling and cron driver: properties *)

\* C3: over driver runs that may crash and be retried in the same window,
\* each (type, user, device) is sent at most one push per window.
C3_AtMostOnePushPerWindow ==
    \A k \in DOMAIN pushes : pushes[k] <= 1

\* C4: a driver run holds payloads for a user only if the write that advances
\* the user's schedule and stamps the window has committed earlier in that run.
C4_NoPushWithoutCommittedAdvance ==
    \A r \in Runs : \A pl \in run[r].payloads : pl.uid \in run[r].committed

PayloadsFor(rr, uid) == {pl \in rr.payloads : pl.uid = uid}

Selects(rr, uid) == \E j \in DOMAIN rr.usersToNotify : rr.usersToNotify[j].uid = uid

\* C5: once a run has committed the advance of a user's schedule in window W,
\* no run that starts later with window key W selects that user, and a run
\* advances schedules and builds payloads only for the users it selected.
C5_WindowGuardHolds ==
    [][\A r \in Runs, uid \in SchedUsers :
          /\ (run[r].pc = "idle" /\ run'[r].pc # "idle" /\ Selects(run'[r], uid))
                => <<uid, run'[r].windowKey>> \notin advanced
          /\ (\/ PayloadsFor(run'[r], uid) \ PayloadsFor(run[r], uid) # {}
              \/ uid \in run'[r].committed \ run[r].committed
              \/ <<uid, run[r].windowKey>> \in advanced' \ advanced)
                => (run[r].pc \in {"advance", "write"} /\ Selects(run[r], uid))]_vars

\* A user whose schedule was advanced in a window was due again in a later
\* run of the same window, which dropped the user; each of the user's devices
\* got exactly one push for the window.
C5_Witness ==
    \E uw \in advanced \cap dropped :
        /\ \A r \in Runs : run[r].pc = "idle"
        /\ users[uw[1]].lastNotificationWindow = uw[2]
        /\ users[uw[1]].nextNotificationUTC <= now
        /\ {k \in DOMAIN pushes : k.uid = uw[1] /\ k.window = uw[2]} # {}
        /\ \A k \in DOMAIN pushes : (k.uid = uw[1] /\ k.window = uw[2]) => pushes[k] = 1

\* The earliest instant strictly after at whose wall clock in the zone reads
\* hour:minute.
NextLocalOccurrence(hour, minute, timezone, at) ==
    LET target == hour * MinutesPerHour + minute - TzOffset(timezone)
        day == (at \div MinutesPerDay) * MinutesPerDay
    IN  Min({t \in {day + target + k * MinutesPerDay : k \in -1..2} : t > at})

\* C8: a stored next-notification instant that is still ahead is the minimum,
\* over the enabled preferences, of the next occurrence of their local time in
\* the stored timezone, and the stored type set is the set of enabled types
\* whose next occurrence is that minimum.
C8_StoredNextIsMinimum ==
    \A uid \in DOMAIN users :
        LET doc == users[uid]
            timezone == Field(doc, "timezone", DEFAULT_TIMEZONE)
            prefs == Field(doc, "notificationPrefs", EmptyDoc)
            enabledTypes == {type \in DOMAIN prefs : prefs[type].enabled}
            occurrence(type) ==
                NextLocalOccurrence(prefs[type].hour, prefs[type].minute, timezone, now)
        IN  ("nextNotificationUTC" \in DOMAIN doc /\ doc.nextNotificationUTC > now) =>
                /\ enabledTypes # {}
                /\ doc.nextNotificationUTC = Min({occurrence(type) : type \in enabledTypes})
                /\ doc.nextNotificationTypes =
                      {type \in enabledTypes : occurrence(type) = doc.nextNotificationUTC}

\* No stored preference of the user is enabled.
NoneEnabled(doc) ==
    LET prefs == Field(doc, "notificationPrefs", EmptyDoc)
    IN  \A type \in DOMAIN prefs : ~prefs[type].enabled

ScheduleAbsent(doc) ==
    /\ "nextNotificationUTC" \notin DOMAIN doc
    /\ "nextNotificationTypes" \notin DOMAIN doc

\* C15: a write of updateNotificationPref or of the driver's schedule advance
\* that leaves the user with no enabled type leaves the stored next instant
\* and the stored type set absent, and a driver run that starts while the
\* user has no enabled type does not select the user.
C15_NothingEnabledNothingScheduled ==
    [][\A uid \in SchedUsers :
          /\ (/\ uid \in DOMAIN users
              /\ users'[uid] # users[uid]
              /\ NoneEnabled(users'[uid]))
                => ScheduleAbsent(users'[uid])
          /\ \A r \in Runs :
                (/\ uid \in DOMAIN users
                 /\ NoneEnabled(users[uid])
                 /\ run[r].pc = "idle" /\ run'[r].pc # "idle")
                    => ~Selects(run'[r], uid)]_vars

\* C16: the notification id is determined by exactly (type, user, window,
\* device): two payloads that were attempted and differ in one of the four,
\* two devices of one user in one window included, carry different ids.
C16_NotificationIdIsInjective ==
    \A k1, k2 \in DOMAIN pushes :
        k1 # k2 => NotificationId(k1.type, k1.uid, k1.window)
                     # NotificationId(k2.type, k2.uid, k2.window)

\* The number of delivery records stored for a (type, user, window, device).
RecordsFor(type, uid, windowKey, deviceId) ==
    LET matching == {n \in DOMAIN notifications :
                        /\ n.notification_id = NotificationId(type, uid, windowKey)
                        /\ n.notification_type = type /\ n.uid = uid
                        /\ n.device_id = deviceId}
        RECURSIVE Total(_)
        Total(S) == IF S = {} THEN 0
                    ELSE LET n == CHOOSE n \in S : TRUE
                         IN  notifications[n] + Total(S \ {n})
    IN  Total(matching)

\* C17: the delivery-record store never holds two records for one
\* (type, user, window, device).
C17_OneRecordPerDispatch ==
    \A k \in DOMAIN pushes : RecordsFor(k.type, k.uid, k.window, k.deviceId) <= 1

\* Run r finishes its step 7 in this step.
LogsResults(r) ==
    /\ run[r].pc = "log"
    /\ run'[r].pc = "idle"
    /\ (notifications' # notifications \/ run'[r].threw)

\* The number of records equal to doc in the bag of delivery records.
CountOf(bag, doc) == IF doc \in DOMAIN bag THEN bag[doc] ELSE 0

\* The NOTIFICATION_DELIVERED events of the ledger that carry the payload's
\* notification id, device and outcome.
DeliveredEvents(ledger, rr, pl) ==
    {e \in DOMAIN ledger :
        /\ ledger[e].event_name = "NOTIFICATION_DELIVERED"
        /\ ledger[e].user_id = pl.uid
        /\ ledger[e].metadata = DeliveredArgs(rr, pl, 0).metadata}

\* C18: when a run logs its results, every payload it attempted, sent or
\* failed, gets exactly one delivery record with its outcome and exactly one
\* notification-delivered event in the ledger.
C18_OneRecordAndOneEventPerPayload ==
    [][\A r \in Runs :
          LogsResults(r) =>
            \A pl \in run[r].payloads :
                /\ CountOf(notifications', NotificationDoc(run[r], pl))
                     = CountOf(notifications, NotificationDoc(run[r], pl)) + 1
                /\ Cardinality(DeliveredEvents(events', run[r], pl))
                     = Cardinality(DeliveredEvents(events, run[r], pl)) + 1]_vars

\* C20: a failed write of one payload's delivery record or tracking event
\* does not make the driver run fail, and the delivery records of the other
\* payloads are written.
C20_LogFailureIsContained ==
    [][\A r \in Runs :
          LogsResults(r) =>
            /\ ~run'[r].threw
            /\ \A pl \in run[r].payloads \ run'[r].rejected :
                  CountOf(notifications', NotificationDoc(run[r], pl))
                     = CountOf(notifications, NotificationDoc(run[r], pl)) + 1]_vars

----------------------------------------------------------------------------
(* Schedule functions: properties *)

\* C13: computeNextNotification returns the minimum of the converted instants
\* of the enabled types and exactly the enabled types whose converted instant
\* is that minimum; a disabled type is never in the set; with no enabled type
\* it returns no instant and the empty set.
C13_NextIsMinimumOfEnabled ==
    fcall.fn = "computeNextNotification" =>
        LET prefs == fcall.args[1]
            timezone == fcall.args[2]
            res == fcall.result[1]
            enabledTypes == {t \in DOMAIN prefs : prefs[t].enabled}
            conv(t) == localTimeToNextUTC(prefs[t].hour, prefs[t].minute, timezone, fcall.at)
        IN  IF enabledTypes = {}
            THEN res.nextUTC = Null /\ res.types = {}
            ELSE /\ res.nextUTC # Null
                 /\ \A t \in enabledTypes : res.nextUTC[1] <= conv(t)
                 /\ \E t \in enabledTypes : res.nextUTC[1] = conv(t)
                 /\ res.types = {t \in enabledTypes : conv(t) = res.nextUTC[1]}
                 /\ \A t \in DOMAIN prefs : ~prefs[t].enabled => t \notin res.types

\* Two enabled types are tied at the minimum, a third enabled type is later,
\* a fourth type is disabled, in a zone off UTC.
C13_Witness ==
    /\ fcall.fn = "computeNextNotification"
    /\ fcall.args[2] = "America/Los_Angeles"
    /\ LET prefs == fcall.args[1]
           res == fcall.result[1]
       IN  /\ prefs # EmptyDoc
           /\ Cardinality(res.types) = 2
           /\ \E t \in DOMAIN prefs : prefs[t].enabled /\ t \notin res.types
           /\ \E t \in DOMAIN prefs : ~prefs[t].enabled

\* C14: for every hour, every minute of the 10-minute grid, every zone and
\* every instant, localTimeToNextUTC returns the earliest instant strictly
\* after now whose wall clock in the zone reads hour:minute: never in the
\* past, never more than 24 hours ahead.
C14_ConversionIsNextOccurrence ==
    fcall.fn = "localTimeToNextUTC" =>
        LET res == fcall.result[1]
        IN  /\ res = NextLocalOccurrence(fcall.args[1], fcall.args[2], fcall.args[3], fcall.at)
            /\ res > fcall.at
            /\ res <= fcall.at + MinutesPerDay

\* C19: the batch send returns exactly one result per payload, in payload
\* order, each marked with the outcome of its own push: a failed push neither
\* ends the batch nor changes the result of another payload.
C19_BatchResultsMatchPayloads ==
    fcall.fn = "sendBatchNotifications" =>
        LET payloads == fcall.args[1]
            failing == fcall.args[2]
            results == fcall.result[1]
        IN  /\ Len(results) = Len(payloads)
            /\ \A j \in DOMAIN payloads :
                  /\ results[j].deviceId = payloads[j].deviceId
                  /\ results[j].uid = payloads[j].uid
                  /\ results[j].notificationId = payloads[j].notificationId
                  /\ results[j].success = (j \notin failing)
                  /\ (results[j].error # Null) = (j \in failing)

\* A batch of three payloads whose second push failed: the first and the
\* third are reported as sent.
C19_Witness ==
    /\ fcall.fn = "sendBatchNotifications"
    /\ Len(fcall.args[1]) = 3
    /\ fcall.args[2] = {2}
    /\ Len(fcall.result[1]) = 3
    /\ fcall.result[1][1].success
    /\ ~fcall.result[1][2].success
    /\ fcall.result[1][3].success
    /\ fcall.result[1][1].deviceId # fcall.result[1][3].deviceId

----------------------------------------------------------------------------
(* Deferred-link workflows: status, counters, creation and lookup errors *)

\* The effective status as the contract words it.
EffectiveStatus(w, at) ==
    CASE w.status = "COMPLETED" -> "COMPLETED"
      [] w.status # "COMPLETED" /\ at > w.expiresAt -> "EXPIRED"
      [] OTHER -> "ACTIVE"

\* Process p reads workflow w for a resolveWorkflow call in this step.
ResolveReads(p, w) ==
    /\ wcall[p].pc = "idle"
    /\ wcall'[p].pc = "update"
    /\ wcall'[p].id = w

\* The callback of a completeWorkflow call of process p on workflow w runs in
\* this step.
CompleteCallbackRuns(p, w) ==
    /\ wcall[p].pc \in {"idle", "callback"}
    /\ \/ PreparesCompletion(p, w)
       \/ /\ wcall'[p].pc = "idle"
          /\ wwrites' = wwrites
          /\ CompleteReturnsFor(w)

\* Process p returns from a resolveWorkflow call on workflow w in this step.
ResolveReturns(p, w) ==
    /\ wcall[p].pc = "update"
    /\ wcall[p].id = w
    /\ wcall'[p].pc = "idle"

\* C21: the status a resolve computes on its read and returns, and the one
\* the callback of complete acts on, is COMPLETED when the stored status is
\* COMPLETED (also past the expiry instant), otherwise EXPIRED when the clock
\* is strictly after the expiry instant, otherwise ACTIVE.
C21_EffectiveStatus ==
    [][\A p \in Procs, w \in DOMAIN workflows :
          /\ ResolveReads(p, w) =>
                wcall'[p].status = EffectiveStatus(workflows[w], now)
          /\ ResolveReturns(p, w) =>
                /\ wret'.op = "resolve"
                /\ wret'.code = 200
                /\ wret'.value[1].status = wcall[p].status
          /\ CompleteCallbackRuns(p, w) =>
                CASE EffectiveStatus(workflows[w], now) = "COMPLETED" ->
                        /\ wout'[w].completed = wout[w].completed + 1
                        /\ wret' = Success("complete", [status |-> "COMPLETED"])
                  [] EffectiveStatus(workflows[w], now) = "EXPIRED" ->
                        /\ wout'[w].conflict = wout[w].conflict + 1
                        /\ wret' = Failure("complete", 409, TRUE)
                  [] OTHER -> PreparesCompletion(p, w)]_vars

\* A workflow was completed at its expiry instant exactly, where it still
\* counted as ACTIVE, and a resolve after that instant returned COMPLETED.
C21_Witness ==
    \E w \in DOMAIN workflows :
        /\ workflows[w].status = "COMPLETED"
        /\ workflows[w].completedAt = workflows[w].expiresAt
        /\ now > workflows[w].expiresAt
        /\ wout[w].resolvedCompleted = 1
        /\ wret = Success("resolve", [type |-> workflows[w].type, status |-> "COMPLETED",
                                      payload |-> workflows[w].payload,
                                      expiresAt |-> workflows[w].expiresAt])

TtlHours(params) ==
    IF params.expiresInHours = Null THEN 48 ELSE params.expiresInHours[1]

\* C23: a created workflow's expiry instant is its creation instant plus
\* ttlHours hours, and no later step (resolve, complete, clock) changes the
\* expiry instant, the type, the payload or the creation instant.
C23_ExpiryIsCreationPlusTtl ==
    [][/\ \A w \in DOMAIN workflows :
             /\ w \in DOMAIN workflows'
             /\ workflows'[w].expiresAt = workflows[w].expiresAt
             /\ workflows'[w].createdAt = workflows[w].createdAt
             /\ workflows'[w].type = workflows[w].type
             /\ workflows'[w].payload = workflows[w].payload
       /\ \A params \in CreateParams, w \in DOMAIN workflows' \ DOMAIN workflows :
             CreateWorkflow(params) =>
                /\ workflows'[w].createdAt = now
                /\ workflows'[w].expiresAt = now + TtlHours(params) * 60
                /\ workflows'[w].type = params.type
                /\ workflows'[w].payload = params.payload]_vars

\* A workflow created with a lifetime of one hour was resolved and then
\* completed at a later instant; its expiry instant is still one hour after
\* its creation instant.
C23_Witness ==
    \E w \in DOMAIN workflows :
        /\ workflows[w].status = "COMPLETED"
        /\ workflows[w].metadata.resolveCount = 1
        /\ workflows[w].completedAt > workflows[w].createdAt
        /\ workflows[w].expiresAt = workflows[w].createdAt + 60

\* The resolves of workflow w that have returned.
ResolvesReturned(w) ==
    wout[w].resolvedActive + wout[w].resolvedCompleted + wout[w].resolvedExpired

\* The completion instant of a document, if it has one.
CompletionInstant(doc) ==
    IF "completedAt" \in DOMAIN doc THEN Some(doc.completedAt) ELSE Null

C25_ExpiredIsFinal ==
    [][\A w \in DOMAIN workflows :
          wout[w].resolvedExpired > 0 =>
             /\ \A p \in Procs :
                   ResolveReads(p, w) => wcall'[p].status = "EXPIRED"
             /\ CompleteReturnsFor(w) =>
                   /\ wout'[w].conflict = wout[w].conflict + 1
                   /\ wout'[w].completed = wout[w].completed]_vars

CreateSucceeds(params) ==
    /\ CreateWorkflow(params)
    /\ wret'.code = 200

\* The last call that returned is the create of workflow w, and the clock
\* still shows the creation instant.
JustCreated(w) ==
    /\ wret.op = "create"
    /\ wret.code = 200
    /\ wret.value[1].workflowId = w
    /\ now = workflows[w].createdAt

\* C27: a successful create stores exactly one new workflow, with status
\* ACTIVE, no completion instant, resolve and click counters 0 and expiry
\* instant = creation instant + ttlHours (48 when omitted), leaves the other
\* workflows alone, and returns the new id with the link {base}/wf/{id}; a
\* resolve that follows immediately returns ACTIVE with the created type and
\* payload.
C27_CreateStoresOneActiveWorkflow ==
    [][/\ \A params \in CreateParams :
             CreateSucceeds(params) =>
                \E w \in DOMAIN workflows' \ DOMAIN workflows :
                   /\ DOMAIN workflows' = DOMAIN workflows \cup {w}
                   /\ \A v \in DOMAIN workflows : workflows'[v] = workflows[v]
                   /\ workflows'[w].status = "ACTIVE"
                   /\ "completedAt" \notin DOMAIN workflows'[w]
                   /\ workflows'[w].metadata = [clickCount |-> 0, resolveCount |-> 0]
                   /\ workflows'[w].createdAt = now
                   /\ workflows'[w].expiresAt = now + TtlHours(params) * 60
                   /\ workflows'[w].type = params.type
                   /\ workflows'[w].payload = params.payload
                   /\ wret'.value = Some([workflowId |-> w,
                                          deepLinkUrl |-> <<DEEP_LINK_BASE_URL, "/wf/", w>>])
       /\ \A p \in Procs, w \in DOMAIN workflows :
             JustCreated(w) =>
                /\ ResolveReads(p, w) => wcall'[p].status = "ACTIVE"
                /\ ResolveReturns(p, w) =>
                      wret' = Success("resolve",
                                 [type |-> workflows[w].type, status |-> "ACTIVE",
                                  payload |-> workflows[w].payload,
                                  expiresAt |-> workflows[w].expiresAt])]_vars

\* A second workflow was created without a lifetime, so that it expires 48
\* hours after its creation, and the resolve that followed at once returned
\* ACTIVE with its type and payload.
C27_Witness ==
    \E w \in DOMAIN workflows :
        /\ Cardinality(DOMAIN workflows) = 2
        /\ workflows[w].expiresAt = workflows[w].createdAt + 48 * 60
        /\ now = workflows[w].createdAt
        /\ workflows[w].metadata.resolveCount = 1
        /\ workflows[w].status = "ACTIVE"
        /\ wret = Success("resolve", [type |-> workflows[w].type, status |-> "ACTIVE",
                                      payload |-> workflows[w].payload,
                                      expiresAt |-> workflows[w].expiresAt])

\* The parameters the contract rejects: a type outside the allow-list, a
\* lifetime below 1 or above 72 hours, or a LOG_WEIGHT payload whose suggested
\* weight is outside 20..300.
RejectedParams(params) ==
    \/ params.type \notin {"LOG_WEIGHT"}
    \/ /\ params.expiresInHours # Null
       /\ params.expiresInHours[1] \notin 1..72
    \/ /\ params.type = "LOG_WEIGHT"
       /\ params.payload.suggestedWeight # Null
       /\ params.payload.suggestedWeight[1] \notin 20..300

\* C28: a create call whose type is outside the allow-list, whose lifetime is
\* below 1 or above 72 hours, or whose LOG_WEIGHT payload suggests a weight
\* outside 20..300 fails with the validation error (400) before touching the
\* store: no workflow document is added or changed.  Every other create of
\* the model returns normally.
C28_InvalidCreateStoresNothing ==
    [][\A params \in CreateParams :
          CreateWorkflow(params) =>
             IF RejectedParams(params)
             THEN /\ wret' = Failure("create", 400, FALSE)
                  /\ workflows' = workflows
             ELSE wret'.code = 200]_vars

\* Three calls were made and none is in flight; the last one to return was a
\* rejected create, and the store holds the single workflow, untouched, that
\* the accepted create stored.
C28_Witness ==
    /\ \A p \in Procs : wcall[p].pc = "idle"
    /\ wret = Failure("create", 400, FALSE)
    /\ nwcalls = 3
    /\ Cardinality(DOMAIN workflows) = 1
    /\ \A w \in DOMAIN workflows : workflows[w].metadata.resolveCount = 0
    /\ \A w \in WorkflowIds : wout[w] = NoReturns

\* A lookup call (resolve or complete) of process p with this id starts in
\* this step.
LookupStarts(p, id) ==
    \/ ResolveRead(p, id)
    \/ CompleteStart(p, id)

\* The step changes no workflow document, no counter of returned calls and
\* no completion write count, and leaves no call in flight.
NothingTouched ==
    /\ workflows' = workflows
    /\ wout' = wout
    /\ wwrites' = wwrites
    /\ wcall' = wcall

\* C29: resolve and complete with an id that does not match the id pattern
\* fail with 400 without reading or writing the store; with a well-formed id
\* that names no document they fail with 404 after their read; in both cases
\* no document is created or changed and no counter is incremented.
C29_LookupErrorsChangeNothing ==
    [][\A p \in Procs :
          /\ LookupStarts(p, MalformedId) =>
                /\ wret'.code = 400
                /\ ~wret'.read
                /\ NothingTouched
          /\ \A id \in WorkflowIds \ DOMAIN workflows :
                LookupStarts(p, id) =>
                   /\ wret'.code = 404
                   /\ NothingTouched]_vars

\* Three calls were made and none is in flight; the last one to return was a
\* complete with a malformed id, answered 400 without a read, and the single
\* workflow of the store was never resolved or completed.
C29_Witness ==
    /\ wret = Failure("complete", 400, FALSE)
    /\ nwcalls = 3
    /\ \A p \in Procs : wcall[p].pc = "idle"
    /\ Cardinality(DOMAIN workflows) = 1
    /\ \A w \in DOMAIN workflows :
          /\ workflows[w].metadata.resolveCount = 0
          /\ workflows[w].status = "ACTIVE"
    /\ \A w \in WorkflowIds : wout[w] = NoReturns

----------------------------------------------------------------------------
(* Event ledger: metadata validation *)

\* The calls of trackEventTx that have returned a status or are in flight.
TrackedCalls ==
    LET RECURSIVE Sum(_)
        Sum(S) == IF S = {} THEN 0
                  ELSE LET e == CHOOSE x \in S : TRUE
                       IN outcomes[e].created + outcomes[e].duplicate + Sum(S \ {e})
    IN Sum(AllEventIds) + Cardinality({p \in Procs : tcall[p].pc # "idle"})

\* C30: a trackEvent call whose metadata does not satisfy the schema of its
\* event kind (the metadata value "bad" of the inputs) fails before the
\* transaction is opened: no event record is written, no user document
\* changes and no transaction is left in flight.
C30_InvalidMetadataWritesNothing ==
    [][\A p \in Procs, a \in RejectArgs :
          (a.metadata = "bad" /\ TrackStart(p, a)) =>
             /\ events' = events
             /\ users' = users
             /\ tcall' = tcall
             /\ outcomes' = outcomes
             /\ applied' = applied]_vars

\* Two calls were made: one created an event record, the other was rejected
\* for its metadata and left no trace in the store.
C30_Witness ==
    /\ ncalls = 2
    /\ TrackedCalls = 1
    /\ \A p \in Procs : tcall[p].pc = "idle"
    /\ Cardinality(DOMAIN events) = 1
    /\ \E e \in DOMAIN events : outcomes[e].created = 1

----------------------------------------------------------------------------
(* Fire-and-forget tracking, serial equivalence, remaining behaviour claims *)

\* C31: whatever trackEventTx does under trackEventAsync (rejects for its
\* metadata, for an invalid timestamp, for a transaction that fails, with or
\* without contention, or returns created or duplicate), the caller of
\* trackEventAsync is handed a normal completion, never an error.
C31_AsyncNeverThrows ==
    \A r \in areport : ~r.threw

\* One fire-and-forget call was rejected for its timestamp, and another lost
\* a commit to a concurrent call and then had its transaction fail; both
\* completed normally for their callers.
C31_Witness ==
    /\ CaughtAndLogged("timestamp", FALSE, TRUE) \in areport
    /\ CaughtAndLogged("transaction", TRUE, TRUE) \in areport
    /\ \E r \in areport : r.cause = "created"
    /\ \A p \in Procs : tcall[p].pc = "idle"

\* The arguments of the call that created an event record.
ArgsOf(record) ==
    [eventId |-> record.event_id, eventName |-> record.event_name,
     userId |-> record.user_id, timestamp |-> record.event_timestamp_utc,
     timezone |-> record.timezone, metadata |-> record.metadata]

\* The user's document before any event: absent, or as initializeUser made it.
DocBeforeEvents(u) ==
    IF u \in DOMAIN users /\ "aiCredits" \in DOMAIN users[u]
    THEN Some(NewUserDoc(StartInstant))
    ELSE Null

\* The streak, last-log date and total log count of an optional document.
StreakState(doc) ==
    IF doc = Null THEN <<0, Null, 0>>
    ELSE <<Field(doc[1], "current_streak", 0), Field(doc[1], "last_log_date", Null),
           Field(doc[1], "total_logs", 0)>>

\* The user's document after the events of order are applied one after
\* another, each transaction reading what the one before wrote.
RECURSIVE AppliedInOrder(_, _, _)
AppliedInOrder(order, i, doc) ==
    IF i > Len(order) THEN doc
    ELSE AppliedInOrder(order, i + 1,
            Some(UserWrite(ArgsOf(events[order[i]]), doc, 0)))

\* The orders in which the recorded events of user u can be applied.
SerialOrders(u) ==
    LET ids == {e \in DOMAIN events : events[e].user_id = u}
    IN  {order \in [1..Cardinality(ids) -> ids] :
            \A i, j \in 1..Cardinality(ids) : order[i] = order[j] => i = j}

\* C32: in every state, the stored streak, last-log date and total log count
\* of a user equal what applying the recorded events of that user one after
\* another gives for some serial order, however the calls that recorded them
\* overlapped; no update of a recorded event is lost.
C32_ConcurrentEventsSerialize ==
    \A u \in EventUsers :
        \E order \in SerialOrders(u) :
            StreakState(DocOpt(users, u)) =
                StreakState(AppliedInOrder(order, 1, DocBeforeEvents(u)))

\* Two measurement logs of one user under distinct event ids overlapped: the
\* first is recorded, and the second, whose commit was refused because the
\* user document had changed, has run its callback again on the new document.
C32_Witness ==
    \E p \in Procs, e \in DOMAIN events :
        /\ tcall[p].pc = "commit"
        /\ tcall[p].attempts = 2
        /\ tcall[p].args.eventId # e
        /\ tcall[p].args.eventId \notin DOMAIN events
        /\ tcall[p].args.userId = events[e].user_id
        /\ tcall[p].args.eventName = WEIGHT_LOGGED
        /\ events[e].event_name = WEIGHT_LOGGED
        /\ tcall[p].snapUser = Some(users[events[e].user_id])

\* The types enabled in the stored preferences of a user document.
EnabledTypes(doc) ==
    LET prefs == Field(doc, "notificationPrefs", EmptyDoc)
    IN  {type \in DOMAIN prefs : prefs[type].enabled}

\* No preference update and no schedule advance is between its read and its
\* write.
NoScheduleWriterInFlight ==
    /\ pcall.pc = "idle"
    /\ \A r \in Runs : run[r].pc # "write"

\* C33: whenever the preference updates and schedule advances that were
\* started have all finished, overlapping or not, the stored schedule of every
\* user agrees with the stored preferences: the stored type set holds enabled
\* types only, so that a driver run that starts then dispatches no disabled
\* type, and a user with no enabled type has no stored next instant.
C33_ScheduleAgreesWithPreferences ==
    NoScheduleWriterInFlight =>
        \A uid \in DOMAIN users :
            /\ Field(users[uid], "nextNotificationTypes", {}) \subseteq EnabledTypes(users[uid])
            /\ EnabledTypes(users[uid]) = {} => ScheduleAbsent(users[uid])

\* C34: when two driver runs of one window overlap, so that both query the
\* due users before either has advanced a schedule, and each of them commits
\* its advance of the user's schedule, each (user, type, device) is still
\* sent at most one push for the window.
C34_OverlappingRunsPushOnce ==
    \A uw \in advanced :
        \A k \in DOMAIN pushes :
            (k.uid = uw[1] /\ k.window = uw[2]) => pushes[k] <= 1

\* The schedule advance of run r for its current user computes, in this step,
\* the schedule it is going to store.
AdvanceComputes(r, uid) ==
    /\ run[r].pc = "advance"
    /\ run'[r].pc = "write"
    /\ run[r].usersToNotify[run[r].i].uid = uid

\* The next occurrence of an enabled type's local time, as the scheduler's
\* own conversion gives it at the instant of this step.
NextOccurrence(doc, type) ==
    localTimeToNextUTC(doc.notificationPrefs[type].hour, doc.notificationPrefs[type].minute,
                       Field(doc, "timezone", DEFAULT_TIMEZONE), now)

\* C35: for a user with two or more enabled types, a schedule advance stores
\* a next instant that is not after the next occurrence of any enabled type:
\* no occurrence between now and the stored next instant is skipped.
C35_AdvanceSkipsNoOccurrence ==
    [][\A r \in Runs, uid \in SchedUsers :
          (AdvanceComputes(r, uid) /\ Cardinality(EnabledTypes(users[uid])) >= 2) =>
             /\ run'[r].next.nextUTC # Null
             /\ \A type \in EnabledTypes(users[uid]) :
                   run'[r].next.nextUTC[1] <= NextOccurrence(users[uid], type)]_vars

\* The transaction of a completeWorkflow call writes workflow w in this step.
CompletionWritten(w) == wwrites'[w] = wwrites[w] + 1

\* C36: the completion instant stored with a workflow is never after its
\* expiry instant, and the write that stores COMPLETED never lands at an
\* instant at which the workflow is effectively EXPIRED, that is, with the
\* clock after the expiry instant.
C36_CompletedOnlyWhileActive ==
    [][\A w \in DOMAIN workflows :
          CompletionWritten(w) =>
             /\ workflows'[w].completedAt <= workflows[w].expiresAt
             /\ EffectiveStatus(workflows[w], now) # "EXPIRED"]_vars

\* C37: the resolve counter of a workflow created with a max-resolves cap
\* never exceeds the cap, and a resolve that reads a workflow whose counter
\* has reached the cap neither increments the counter nor returns the payload.
C37_ResolveCountWithinCap ==
    [][\A w \in DOMAIN workflows :
          workflows[w].maxResolves # Null =>
             /\ workflows'[w].metadata.resolveCount <= workflows[w].maxResolves[1]
             /\ \A p \in Procs :
                   (/\ ResolveReturns(p, w)
                    /\ wcall[p].snap[1].metadata.resolveCount >= workflows[w].maxResolves[1]) =>
                      /\ workflows'[w].metadata.resolveCount = workflows[w].metadata.resolveCount
                      /\ wret'.code # 200]_vars

\* The credit balance of user u as stored, DEFAULT_FREE_CREDITS for a user
\* who has no document yet.
StoredBalance(docs, u) ==
    IF u \in DOMAIN docs THEN aiCreditsOf(docs[u]) ELSE DEFAULT_FREE_CREDITS

\* The transaction of a deductCredit call for user u commits in this step.
DeductSucceeds(u) ==
    /\ chist'.deducted = chist.deducted + 1
    /\ \E q \in Procs : ccall[q].uid = u /\ ccall[q].pc = "commit" /\ ccall'[q].pc = "idle"

\* A deductCredit call fails with the insufficient-credits error in this step.
DeductRefused == chist'.refused = chist.refused + 1

\* C38: under every interleaving of deductCredit calls with each other, with
\* getOrCreateUser and with event tracking for the same user, the stored
\* credit balance of an existing user document is a number and not negative,
\* a deductCredit that succeeds lowers it by exactly one, no other step
\* changes it, and a deductCredit that is refused happens at balance 0 and
\* leaves the user documents unchanged.
C38_CreditsOnlyGoDownByDeduction ==
    [][\A u \in EventUsers :
          /\ u \in DOMAIN users' =>
                /\ "aiCredits" \in DOMAIN users'[u]
                /\ users'[u].aiCredits # NaN
                /\ users'[u].aiCredits >= 0
          /\ IF DeductSucceeds(u)
             THEN StoredBalance(users', u) = StoredBalance(users, u) - 1
             ELSE StoredBalance(users', u) = StoredBalance(users, u)
          /\ DeductRefused =>
                /\ StoredBalance(users, u) = 0
                /\ users' = users]_vars

====
